---- MODULE Spec2Model ----
(***************************************************************************)
(* A model of the ACME session and request engine (src/src/acme/md_acme.c) *)
(* and of the authorization / challenge dispatcher                         *)
(* (src/src/md_acme_authz.c).                                              *)
(*                                                                         *)
(* One session (md_acme_t) talks to one server.  Every HTTP exchange is    *)
(* synchronous: the engine dispatches, the transport invokes the response  *)
(* callback once, and md_http_await returns.  An action of this model is   *)
(* therefore one public call up to its first suspension point, or one      *)
(* HTTP exchange of md_acme_req_send together with the code that follows   *)
(* it up to the next exchange.                                             *)
(***************************************************************************)
EXTENDS Integers, Sequences, FiniteSets, TLC

(***************************************************************************)
(* Bounds of the model.                                                    *)
(***************************************************************************)
\* Replay-Nonce values the server can hand out are 1..MaxNonce.
MaxNonce == 2
\* An authorization resource lists up to MaxChallenges challenges.
MaxChallenges == 2
\* A caller configures up to MaxPreferences challenge types.
MaxPreferences == 2
\* md_acme_authz_respond is called up to MaxResponds times on one session.
MaxResponds == 1

(***************************************************************************)
(* Values.                                                                 *)
(***************************************************************************)
\* A NULL char pointer (an unset url, an absent JSON string).
NULL == "NULL"
\* acme->nonce == NULL: the session holds no nonce.
NoNonce == 0
Nonces == 1..MaxNonce

APR_SUCCESS  == "APR_SUCCESS"
APR_EINVAL   == "APR_EINVAL"
APR_EGENERAL == "APR_EGENERAL"
APR_EACCES   == "APR_EACCES"
APR_ENOENT   == "APR_ENOENT"
APR_EAGAIN   == "APR_EAGAIN"
APR_BADARG   == "APR_BADARG"
APR_ENOTIMPL == "APR_ENOTIMPL"
\* Any failure of the transport (connection refused, timeout, bad url).
APR_ECONNREFUSED == "APR_ECONNREFUSED"
\* Not a status: the process was killed where the value would have been made
\* (a read through a NULL pointer), so that nothing is returned.
SIGSEGV == "SIGSEGV"

\* The server url the session was created with, and urls callers pass in.
ServerUrl == "https://acme/directory"
OtherUrl  == "https://acme/resource"

\* The four directory keys md_acme_setup reads.
DirKeys == {"new-authz", "new-cert", "new-reg", "revoke-cert"}

\* The url a directory document gives for key k.
DirUrl(k) == "https://acme/" \o k


(***************************************************************************)
(* Strings that the code compares are sequences of one-character strings,  *)
(* so that apr_strnatcasecmp and strstr act on their characters.           *)
(***************************************************************************)
\* The terminating NUL of a C string.
NUL == ""
LowerCase == <<"a","b","c","d","e","f","g","h","i","j","k","l","m","n","o","p","q","r","s","t","u","v","w","x","y","z">>
UpperCase == <<"A","B","C","D","E","F","G","H","I","J","K","L","M","N","O","P","Q","R","S","T","U","V","W","X","Y","Z">>
Digits == {"0","1","2","3","4","5","6","7","8","9"}

apr_isspace(c) == c \in {" ", "\t", "\n", "\r"}
apr_isdigit(c) == c \in Digits
apr_toupper(c) ==
    IF \E i \in 1..Len(LowerCase) : LowerCase[i] = c
    THEN UpperCase[CHOOSE i \in 1..Len(LowerCase) : LowerCase[i] = c]
    ELSE c

\* s[i] of a C string (1-based), NUL at and after its end.
CharAt(s, i) == IF i <= Len(s) THEN s[i] ELSE NUL

\* "while (apr_isspace(ca)) ca = a[++ai];"
RECURSIVE SkipSpace(_, _)
SkipSpace(s, i) == IF apr_isspace(CharAt(s, i)) THEN SkipSpace(s, i + 1) ELSE i

\* compare_right / compare_left of apr_strnatcmp.c, on the digit runs that
\* start at a[ai] and b[bi].  Only "zero or not" is kept of the result (every
\* caller tests the result against zero): 0, or 1 for any non-zero value.
RECURSIVE compare_right(_, _, _, _, _)
compare_right(a, ai, b, bi, bias) ==
    LET ca == CharAt(a, ai)
        cb == CharAt(b, bi)
    IN  IF ~apr_isdigit(ca) /\ ~apr_isdigit(cb) THEN bias
        ELSE IF ~apr_isdigit(ca) \/ ~apr_isdigit(cb) THEN 1
        ELSE compare_right(a, ai + 1, b, bi + 1,
                           IF ca # cb /\ bias = 0 THEN 1 ELSE bias)

RECURSIVE compare_left(_, _, _, _)
compare_left(a, ai, b, bi) ==
    LET ca == CharAt(a, ai)
        cb == CharAt(b, bi)
    IN  IF ~apr_isdigit(ca) /\ ~apr_isdigit(cb) THEN 0
        ELSE IF ~apr_isdigit(ca) \/ ~apr_isdigit(cb) THEN 1
        ELSE IF ca # cb THEN 1
        ELSE compare_left(a, ai + 1, b, bi + 1)

\* strnatcmp0(a, b, fold_case = 1); loop[ai, bi] is one round of its loop,
\* entered with the indices ai and bi.
strnatcmp0(a, b) ==
    LET loop[ai \in 1..(Len(a) + 1), bi \in 1..(Len(b) + 1)] ==
            LET i  == SkipSpace(a, ai)
                j  == SkipSpace(b, bi)
                ca == CharAt(a, i)
                cb == CharAt(b, j)
                digits == apr_isdigit(ca) /\ apr_isdigit(cb)
                result == IF ~digits THEN 0
                          ELSE IF ca = "0" \/ cb = "0" THEN compare_left(a, i, b, j)
                          ELSE compare_right(a, i, b, j, 0)
            IN  IF result # 0 THEN result
                ELSE IF ca = NUL /\ cb = NUL THEN 0
                ELSE IF apr_toupper(ca) # apr_toupper(cb) THEN 1
                ELSE loop[i + 1, j + 1]
    IN  loop[1, 1]

\* apr_strnatcasecmp(a, b): 0 when equal in natural order ignoring case.
apr_strnatcasecmp(a, b) == strnatcmp0(a, b)

\* strstr(s, prefix) == s
StartsWith(s, prefix) ==
    /\ Len(prefix) <= Len(s)
    /\ \A i \in 1..Len(prefix) : s[i] = prefix[i]

\* s + n
Skip(s, n) == SubSeq(s, n + 1, Len(s))

UrnIetfParams == <<"u","r","n",":","i","e","t","f",":","p","a","r","a","m","s",":">>
Urn == <<"u","r","n",":">>
AcmeError == <<"a","c","m","e",":","e","r","r","o","r",":">>

Problems == <<
    [type |-> AcmeError \o <<"b","a","d","C","S","R">>, rv |-> APR_EINVAL],
    [type |-> AcmeError \o <<"b","a","d","N","o","n","c","e">>, rv |-> APR_EGENERAL],
    [type |-> AcmeError \o <<"b","a","d","S","i","g","n","a","t","u","r","e","A","l","g","o","r","i","t","h","m">>, rv |-> APR_EINVAL],
    [type |-> AcmeError \o <<"i","n","v","a","l","i","d","C","o","n","t","a","c","t">>, rv |-> APR_BADARG],
    [type |-> AcmeError \o <<"u","n","s","u","p","p","o","r","t","e","d","C","o","n","t","a","c","t">>, rv |-> APR_EGENERAL],
    [type |-> AcmeError \o <<"m","a","l","f","o","r","m","e","d">>, rv |-> APR_EINVAL],
    [type |-> AcmeError \o <<"r","a","t","e","L","i","m","i","t","e","d">>, rv |-> APR_BADARG],
    [type |-> AcmeError \o <<"r","e","j","e","c","t","e","d","I","d","e","n","t","i","f","i","e","r">>, rv |-> APR_BADARG],
    [type |-> AcmeError \o <<"s","e","r","v","e","r","I","n","t","e","r","n","a","l">>, rv |-> APR_EGENERAL],
    [type |-> AcmeError \o <<"u","n","a","u","t","h","o","r","i","z","e","d">>, rv |-> APR_EACCES],
    [type |-> AcmeError \o <<"u","n","s","u","p","p","o","r","t","e","d","I","d","e","n","t","i","f","i","e","r">>, rv |-> APR_BADARG],
    [type |-> AcmeError \o <<"u","s","e","r","A","c","t","i","o","n","R","e","q","u","i","r","e","d">>, rv |-> APR_EAGAIN],
    [type |-> AcmeError \o <<"b","a","d","R","e","v","o","c","a","t","i","o","n","R","e","a","s","o","n">>, rv |-> APR_EINVAL],
    [type |-> AcmeError \o <<"c","a","a">>, rv |-> APR_EGENERAL],
    [type |-> AcmeError \o <<"d","n","s">>, rv |-> APR_EGENERAL],
    [type |-> AcmeError \o <<"c","o","n","n","e","c","t","i","o","n">>, rv |-> APR_EGENERAL],
    [type |-> AcmeError \o <<"t","l","s">>, rv |-> APR_EGENERAL],
    [type |-> AcmeError \o <<"i","n","c","o","r","r","e","c","t","R","e","s","p","o","n","s","e">>, rv |-> APR_EGENERAL]
  >>

\* problem_status_get(type), for a non-NULL type.
problem_status_get(type) ==
    LET t == IF StartsWith(type, UrnIetfParams) THEN Skip(type, Len(UrnIetfParams))
             ELSE IF StartsWith(type, Urn) THEN Skip(type, Len(Urn))
             ELSE type
        hits == {i \in 1..Len(Problems) : apr_strnatcasecmp(t, Problems[i].type) = 0}
    IN  IF hits = {} THEN APR_EGENERAL
        ELSE Problems[CHOOSE i \in hits : \A j \in hits : i <= j].rv


(***************************************************************************)
(* JSON documents are records; md_json_gets gives NULL for an absent key.  *)
(***************************************************************************)
md_json_gets(json, key) == IF key \in DOMAIN json THEN json[key] ELSE NULL

\* The directory document that holds exactly the keys ks.
DirJson(ks) == [k \in ks |-> DirUrl(k)]

(***************************************************************************)
(* What the transport hands to a response callback (md_http_response_t):   *)
(* rv, the transport's result; status, the HTTP status (0 when the         *)
(* transfer failed); nonce, the Replay-Nonce header (NoNonce when the      *)
(* header is absent); ctype, the content type; parses, whether the body is *)
(* well-formed JSON; json, the document it then holds.                     *)
(***************************************************************************)
CT_JSON    == "application/json"
CT_PROBLEM == "application/problem+json"
CT_TEXT    == "text/plain"

\* The statuses the server answers with: inside [200,300), and outside.
OkStatuses  == {200}
ErrStatuses == {300, 400, 403, 404, 500}

Is2xx(status) == status >= 200 /\ status < 300

\* md_json_read_http: APR_ENOENT for a body that is not JSON content, a parse
\* error for malformed JSON, APR_SUCCESS with the document otherwise.
md_json_read_http(res) ==
    IF res.ctype \notin {CT_JSON, CT_PROBLEM} THEN APR_ENOENT
    ELSE IF ~res.parses THEN APR_EINVAL
    ELSE APR_SUCCESS

\* A req_update_nonce that keeps a nonce the session still holds.
req_update_nonce_keeps(nonce, hdr) == IF nonce # NoNonce THEN nonce ELSE hdr

\* req_update_nonce(acme, hdrs): the session nonce afterwards.
req_update_nonce(nonce, hdr) == IF hdr # NoNonce THEN hdr ELSE nonce

\* http_update_nonce(res): the session nonce afterwards (it returns res->rv).
http_update_nonce(nonce, hdr) == IF hdr # NoNonce THEN hdr ELSE nonce

\* The "type" members of the problem documents the server sends.
BadNonceType  == UrnIetfParams \o AcmeError \o <<"b","a","d","N","o","n","c","e">>
MalformedType == Urn \o AcmeError \o <<"M","A","L","F","O","R","M","E","D">>
UnknownType   == Urn \o AcmeError \o <<"n","e","w">>
ProblemTypes  == {BadNonceType, MalformedType, UnknownType}

\* problem_status_get on those, computed once.
ProblemStatus == [t \in ProblemTypes |-> problem_status_get(t)]

\* inspect_problem(req, res), called for a response outside [200,300).
\* A problem document without "type" gives ptype == NULL, which
\* problem_status_get hands to strstr.
inspect_problem(res) ==
    IF res.ctype = CT_PROBLEM /\ md_json_read_http(res) = APR_SUCCESS
    THEN IF "type" \in DOMAIN res.json
         THEN ProblemStatus[md_json_gets(res.json, "type")]
         ELSE SIGSEGV
    ELSE IF res.rv = APR_SUCCESS
    THEN CASE res.status = 400 -> APR_EINVAL
           [] res.status = 403 -> APR_EACCES
           [] res.status = 404 -> APR_ENOENT
           [] OTHER            -> APR_EGENERAL
    ELSE res.rv

\* An on_response that does not fall through to on_res when the body is not
\* JSON content.
on_response_no_fall_through(r, res, nonce, jrv, rrv) ==
    IF res.rv # APR_SUCCESS
    THEN [rv |-> res.rv, nonce |-> nonce, on_json |-> FALSE, on_res |-> FALSE,
          done |-> 1]
    ELSE LET n == req_update_nonce(nonce, res.nonce)
             prv == md_json_read_http(res)
             viaJson == r.on_json /\ prv = APR_SUCCESS
             processed == r.on_json
             viaRes == ~processed /\ r.on_res
         IN  IF Is2xx(res.status)
             THEN [rv |-> IF viaJson THEN jrv
                          ELSE IF processed THEN prv
                          ELSE IF viaRes THEN rrv
                          ELSE APR_EINVAL,
                   nonce |-> n, on_json |-> viaJson, on_res |-> viaRes,
                   done |-> 1]
             ELSE [rv |-> inspect_problem(res), nonce |-> n,
                   on_json |-> FALSE, on_res |-> FALSE,
                   done |-> IF inspect_problem(res) = SIGSEGV THEN 0 ELSE 1]

\* on_response(res) for a request with callbacks r (on_json, on_res: whether
\* it has one), with the session nonce before it and the values jrv and rrv
\* that on_json and on_res return when they are invoked.  The result: rv, what on_response returns; nonce, the session
\* nonce afterwards; on_json / on_res, whether that callback was invoked;
\* done, the number of md_acme_req_done calls.
on_response(r, res, nonce, jrv, rrv) ==
    IF res.rv # APR_SUCCESS
    THEN [rv |-> res.rv, nonce |-> nonce, on_json |-> FALSE, on_res |-> FALSE,
          done |-> 1]
    ELSE LET n == req_update_nonce(nonce, res.nonce)
             prv == md_json_read_http(res)
             viaJson == r.on_json /\ prv = APR_SUCCESS
             processed == r.on_json /\ prv # APR_ENOENT
             viaRes == ~processed /\ r.on_res
         IN  IF Is2xx(res.status)
             THEN [rv |-> IF viaJson THEN jrv
                          ELSE IF processed THEN prv
                          ELSE IF viaRes THEN rrv
                          ELSE APR_EINVAL,
                   nonce |-> n, on_json |-> viaJson, on_res |-> viaRes,
                   done |-> 1]
             ELSE [rv |-> inspect_problem(res), nonce |-> n,
                   on_json |-> FALSE, on_res |-> FALSE,
                   done |-> IF inspect_problem(res) = SIGSEGV THEN 0 ELSE 1]


(***************************************************************************)
(* The responses the server and the transport can produce.                 *)
(***************************************************************************)
EmptyJson == [x \in {} |-> NULL]

Body(ctype, parses, json) == [ctype |-> ctype, parses |-> parses, json |-> json]

\* Bodies any url can send with a status in [200,300): a JSON object, text,
\* malformed JSON.
OkBodies ==
    {Body(CT_JSON, TRUE, EmptyJson), Body(CT_TEXT, FALSE, EmptyJson),
     Body(CT_JSON, FALSE, EmptyJson)}

\* Bodies sent with any other status: text.
ErrBodies == {Body(CT_TEXT, FALSE, EmptyJson)}

\* RFC 7807 problem documents, well-formed and malformed (the status they come
\* with is looked at for the malformed one only).
ProblemBodies ==
    {Body(CT_PROBLEM, TRUE, [type |-> t]) : t \in ProblemTypes}
    \cup {Body(CT_PROBLEM, FALSE, EmptyJson)}

\* Bodies of the directory url: all four keys, any one of them missing, none.
DirKeySets == {DirKeys, {}} \cup {DirKeys \ {k} : k \in DirKeys}
DirBodies == {Body(CT_JSON, TRUE, DirJson(ks)) : ks \in DirKeySets}

Response(rv, status, nonce, b) ==
    [rv |-> rv, status |-> status, nonce |-> nonce, ctype |-> b.ctype,
     parses |-> b.parses, json |-> b.json]

\* A transfer that failed: no status; headers may have arrived before it did.
FailedTransfers(hdrs) ==
    {Response(APR_ECONNREFUSED, 0, n, Body(CT_TEXT, FALSE, EmptyJson)) : n \in hdrs}

Headers == {NoNonce} \cup Nonces

\* Every response a url other than NULL can get, given the documents found
\* at it.
ResponsesWith(docs) ==
    FailedTransfers(Headers)
    \cup {Response(APR_SUCCESS, s, n, b) :
            s \in OkStatuses, n \in Headers, b \in OkBodies \cup docs}
    \cup {Response(APR_SUCCESS, s, n, b) :
            s \in ErrStatuses, n \in Headers, b \in ErrBodies}
    \cup {Response(APR_SUCCESS, 400, n, b) : n \in Headers, b \in ProblemBodies}

\* A problem document without "type" (RFC 7807 lets it default).
TypelessProblem == Body(CT_PROBLEM, TRUE, [detail |-> "bad"])

\* The directory url answers with its documents; any other url of the server
\* may also answer with the problem document without type.
DirectoryResponses == ResponsesWith(DirBodies)
ResourceResponses  ==
    ResponsesWith({})
    \cup {Response(APR_SUCCESS, 400, n, TypelessProblem) : n \in Headers}
\* A request for the NULL url never reaches a server.
NullUrlResponses   == FailedTransfers({NoNonce})

\* The url of an authorization, and the documents a server has for it: with
\* a "status" (the three the client knows, in another case, another one, an
\* empty one) or without, and with or without the identifier.
AuthzUrl == "https://acme/authz/1"
AuthzStatuses == {"pending", "valid", "invalid", "Pending", "deactivated", ""}
AuthzIdentifier == [type |-> "dns", value |-> "example.org"]
AuthzBodies ==
    {Body(CT_JSON, TRUE, [status |-> s, identifier |-> AuthzIdentifier]) :
        s \in AuthzStatuses}
    \cup {Body(CT_JSON, TRUE, [status |-> s]) : s \in AuthzStatuses}
    \cup {Body(CT_JSON, TRUE, [identifier |-> AuthzIdentifier])}
AuthzResponses ==
    ResponsesWith(AuthzBodies)
    \cup {Response(APR_SUCCESS, 400, n, TypelessProblem) : n \in Headers}

Responses(url) ==
    IF url = NULL THEN NullUrlResponses
    ELSE IF url = ServerUrl THEN DirectoryResponses
    ELSE IF url \in {AuthzUrl, DirUrl("new-authz")} THEN AuthzResponses
    ELSE ResourceResponses

(***************************************************************************)
(* Authorizations and their challenges (md_acme_authz.c).                  *)
(***************************************************************************)
\* The challenge type names of md_acme_authz.h, and the names a server or a
\* configuration gives besides: in other case, with white space inside, and
\* of a type without handler.
MD_AUTHZ_TYPE_HTTP01    == <<"h","t","t","p","-","0","1">>
MD_AUTHZ_TYPE_TLSALPN01 == <<"t","l","s","-","a","l","p","n","-","0","1">>
MD_AUTHZ_TYPE_TLSSNI01  == <<"t","l","s","-","s","n","i","-","0","1">>
TypeDns01        == <<"d","n","s","-","0","1">>
TypeHttp01Upper  == <<"H","T","T","P","-","0","1">>
TypeHttp01Spaced == <<"h","t","t","p"," ","-","0","1">>

\* The types a caller configures, and the types a server offers.
PreferredTypes ==
    {MD_AUTHZ_TYPE_HTTP01, MD_AUTHZ_TYPE_TLSALPN01, MD_AUTHZ_TYPE_TLSSNI01, TypeDns01}
OfferedTypes == PreferredTypes \cup {TypeHttp01Upper, TypeHttp01Spaced}

\* apr_strnatcasecmp on those, computed once.
TypeCmp == [a \in OfferedTypes, b \in OfferedTypes |-> apr_strnatcasecmp(a, b)]

\* The domain of the authorization, the token of its challenges, the
\* thumbprint of the account key (md_jws_pkey_thumb), and a key authorization
\* made with another account key.
Domain == "example.org"
Token == "token"
Thumb64 == "thumb"
StaleKeyAuthz == "token.other"

\* The url of the challenge listed at index i of the resource.
ChallengeUri(i) == IF i = 1 THEN "https://acme/challenge/1"
                   ELSE IF i = 2 THEN "https://acme/challenge/2"
                   ELSE "https://acme/challenge/n"

\* md_json_has_key(json, key)
md_json_has_key(json, key) == key \in DOMAIN json

\* md_json_dups(p, json, key): a copy of the string at the key, NULL when
\* there is none.
md_json_dups(json, key) == md_json_gets(json, key)

\* cha_from_json(p, index, json); json has a "type" where it is called.
cha_from_json(index, json) ==
    [index |-> index,
     type |-> json.type,
     uri |-> IF md_json_has_key(json, "url") THEN md_json_dups(json, "url")
             ELSE md_json_dups(json, "uri"),
     token |-> md_json_dups(json, "token"),
     key_authz |-> md_json_dups(json, "keyAuthorization")]

\* find_type(ctx, index, json) accepts the challenge: ctype is there and
\* compares equal to ctx->type.
find_type(type, json) ==
    IF md_json_has_key(json, "type") THEN TypeCmp[type, json.type] = 0 ELSE FALSE

\* md_json_itera(find_type, &fctx, authz->resource, MD_KEY_CHALLENGES): the
\* iteration stops at the first challenge find_type accepts; its index, 0 when
\* it accepts none.
md_json_itera_find_type(type, resource) ==
    LET cs == IF md_json_has_key(resource, "challenges") THEN resource.challenges
              ELSE <<>>
    IN  IF \E i \in 1..Len(cs) : find_type(type, cs[i])
        THEN CHOOSE i \in 1..Len(cs) :
                 /\ find_type(type, cs[i])
                 /\ \A j \in 1..(i - 1) : ~find_type(type, cs[j])
        ELSE 0

\* "for (i = 0; i < challenges->nelts && !fctx.accepted; ++i)": the index in
\* the resource of the accepted challenge, from challenges[i] on; 0 when none
\* is accepted.
RECURSIVE find_accepted(_, _, _)
find_accepted(challenges, resource, i) ==
    IF i > Len(challenges) THEN 0
    ELSE IF md_json_itera_find_type(challenges[i], resource) # 0
    THEN md_json_itera_find_type(challenges[i], resource)
    ELSE find_accepted(challenges, resource, i + 1)

\* CHA_TYPES: the handler of each type.
CHA_TYPES == <<
    [name |-> MD_AUTHZ_TYPE_HTTP01,    start |-> "cha_http_01_setup"],
    [name |-> MD_AUTHZ_TYPE_TLSALPN01, start |-> "cha_tls_alpn_01_setup"],
    [name |-> MD_AUTHZ_TYPE_TLSSNI01,  start |-> "cha_tls_sni_01_setup"]
  >>

\* "for (i = 0; i < CHA_TYPES_LEN; ++i) if (!apr_strnatcasecmp(...))": the
\* handler of the first entry whose name compares equal to type, "none" when
\* there is no such entry.
cha_starter(type) ==
    IF \E i \in 1..Len(CHA_TYPES) : TypeCmp[CHA_TYPES[i].name, type] = 0
    THEN CHA_TYPES[CHOOSE i \in 1..Len(CHA_TYPES) :
                       /\ TypeCmp[CHA_TYPES[i].name, type] = 0
                       /\ \A j \in 1..(i - 1) : TypeCmp[CHA_TYPES[j].name, type] # 0].start
    ELSE "none"

(***************************************************************************)
(* The challenge store (md_store_t, group MD_SG_CHALLENGES) is a function  *)
(* from "<name>/<file>" to what the file holds: a text, "pkey" for a       *)
(* private key, or a certificate [cn, alt_names, acme_id].  What the       *)
(* collaborators of a handler do in one call is given by fault: the one of *)
(* them that fails in this call, "none" when none does.                    *)
(***************************************************************************)
MD_FN_HTTP01         == "acme-http-01.txt"
MD_FN_TLSALPN01_CERT == "acme-tls-alpn-01.pem"
MD_FN_TLSALPN01_PKEY == "acme-tls-alpn-01.key"
MD_FN_TLSSNI01_CERT  == "acme-tls-sni-01.cert.pem"
MD_FN_TLSSNI01_PKEY  == "acme-tls-sni-01.key.pem"

Faults == {"none", "thumb", "load", "save", "pkey_gen", "digest", "cert", "save_cert"}

StoreKey(name, file) == name \o "/" \o file

\* md_store_load(store, MD_SG_CHALLENGES, name, file, ...)
md_store_load(store, name, file, fault) ==
    IF fault = "load" THEN [rv |-> APR_EGENERAL, data |-> NULL]
    ELSE IF StoreKey(name, file) \in DOMAIN store
    THEN [rv |-> APR_SUCCESS, data |-> store[StoreKey(name, file)]]
    ELSE [rv |-> APR_ENOENT, data |-> NULL]

\* md_store_save(store, p, MD_SG_CHALLENGES, name, file, ..., value, 0)
md_store_save(store, name, file, value, fails) ==
    IF fails THEN [rv |-> APR_EGENERAL, store |-> store]
    ELSE [rv |-> APR_SUCCESS,
          store |-> [k \in DOMAIN store \cup {StoreKey(name, file)} |->
                        IF k = StoreKey(name, file) THEN value ELSE store[k]]]

\* md_crypt_sha256_digest_hex(&hex, p, data, len)
md_crypt_sha256_digest_hex(data) == "sha256:" \o data

\* md_cert_covers_domain(cert, name)
md_cert_covers_domain(cert, name) == name \in cert.alt_names

\* md_cert_make_tls_alpn_01(&cert, domain, acme_id, key, valid_for, p)
md_cert_make_tls_alpn_01(domain, acme_id) ==
    [cn |-> domain, alt_names |-> {domain}, acme_id |-> acme_id]

\* md_cert_self_sign(&cert, cn, domains, key, valid_for, p)
md_cert_self_sign(cn, domains) ==
    [cn |-> cn, alt_names |-> domains, acme_id |-> NULL]

\* What a handler did: rv, its return value unless it goes on to md_acme_POST;
\* post, whether it does; authz, store and cha as it leaves them; the store
\* keys it loaded and saved.
cha_result(start, rv, authz, store, cha, post, loaded, saved) ==
    [start |-> start, accepted |-> cha.index, rv |-> rv, authz |-> authz,
     store |-> store, cha |-> cha, post |-> post, loaded |-> loaded, saved |-> saved]

\* A setup_key_authz that keeps whatever key authorization the challenge has.
setup_key_authz_keeps(cha, fault) ==
    IF fault = "thumb"
    THEN [rv |-> APR_EGENERAL, cha |-> cha, changed |-> FALSE]
    ELSE IF cha.key_authz # NULL
    THEN [rv |-> APR_SUCCESS, cha |-> cha, changed |-> FALSE]
    ELSE [rv |-> APR_SUCCESS,
          cha |-> [cha EXCEPT !.key_authz = cha.token \o "." \o Thumb64],
          changed |-> TRUE]

\* A setup_key_authz that never reports a change.
setup_key_authz_silent(cha, fault) ==
    IF fault = "thumb"
    THEN [rv |-> APR_EGENERAL, cha |-> cha, changed |-> FALSE]
    ELSE [rv |-> APR_SUCCESS,
          cha |-> [cha EXCEPT !.key_authz = cha.token \o "." \o Thumb64],
          changed |-> FALSE]

\* setup_key_authz(cha, authz, acme, p, &changed), cha->token being set.
setup_key_authz(cha, fault) ==
    IF fault = "thumb"
    THEN [rv |-> APR_EGENERAL, cha |-> cha, changed |-> FALSE]
    ELSE IF cha.key_authz # NULL /\ cha.key_authz = cha.token \o "." \o Thumb64
    THEN [rv |-> APR_SUCCESS, cha |-> cha, changed |-> FALSE]
    ELSE [rv |-> APR_SUCCESS,
          cha |-> [cha EXCEPT !.key_authz = cha.token \o "." \o Thumb64],
          changed |-> TRUE]

\* cha_http_01_setup from md_store_save on: s is what it gave.
http_01_saved(k, s, authz) ==
    cha_result("cha_http_01_setup", s.rv, [authz EXCEPT !.dir = authz.domain],
               s.store, k.cha, s.rv = APR_SUCCESS,
               {StoreKey(authz.domain, MD_FN_HTTP01)},
               {StoreKey(authz.domain, MD_FN_HTTP01)})

\* A cha_http_01_setup that writes the file only when there is none.
http_01_loaded_absent(k, l, authz, store, fault) ==
    IF l.rv = APR_ENOENT
    THEN http_01_saved(k, md_store_save(store, authz.domain, MD_FN_HTTP01,
                                         k.cha.key_authz, fault = "save"), authz)
    ELSE cha_result("cha_http_01_setup", l.rv, authz, store, k.cha,
                    l.rv = APR_SUCCESS /\ k.changed,
                    {StoreKey(authz.domain, MD_FN_HTTP01)}, {})

\* cha_http_01_setup from md_store_load on: l is what it gave.
http_01_loaded(k, l, authz, store, fault) ==
    IF (l.rv = APR_SUCCESS /\ k.cha.key_authz # l.data) \/ l.rv = APR_ENOENT
    THEN http_01_saved(k, md_store_save(store, authz.domain, MD_FN_HTTP01,
                                         k.cha.key_authz, fault = "save"), authz)
    ELSE cha_result("cha_http_01_setup", l.rv, authz, store, k.cha,
                    l.rv = APR_SUCCESS /\ k.changed,
                    {StoreKey(authz.domain, MD_FN_HTTP01)}, {})

\* cha_http_01_setup from setup_key_authz on: k is what it gave.
http_01_keyed(k, authz, store, fault) ==
    IF k.rv # APR_SUCCESS
    THEN cha_result("cha_http_01_setup", k.rv, authz, store, k.cha, FALSE, {}, {})
    ELSE http_01_loaded(k, md_store_load(store, authz.domain, MD_FN_HTTP01, fault),
                        authz, store, fault)

\* cha_http_01_setup(cha, authz, acme, store, key_spec, p)
cha_http_01_setup(cha, authz, store, fault) ==
    http_01_keyed(setup_key_authz(cha, fault), authz, store, fault)

\* A cha_tls_alpn_01_setup that goes on to its POST whatever the
\* md_store_save of the certificate gave.
tls_alpn_01_cert_saved_posts(k, s, authz) ==
    cha_result("cha_tls_alpn_01_setup", s.rv, [authz EXCEPT !.dir = authz.domain],
               s.store, k.cha, TRUE,
               {StoreKey(authz.domain, MD_FN_TLSALPN01_CERT)},
               {StoreKey(authz.domain, MD_FN_TLSALPN01_PKEY),
                StoreKey(authz.domain, MD_FN_TLSALPN01_CERT)})

\* cha_tls_alpn_01_setup from the md_store_save of the certificate on.
tls_alpn_01_cert_saved(k, s, authz) ==
    cha_result("cha_tls_alpn_01_setup", s.rv, [authz EXCEPT !.dir = authz.domain],
               s.store, k.cha, s.rv = APR_SUCCESS,
               {StoreKey(authz.domain, MD_FN_TLSALPN01_CERT)},
               {StoreKey(authz.domain, MD_FN_TLSALPN01_PKEY),
                StoreKey(authz.domain, MD_FN_TLSALPN01_CERT)})

\* cha_tls_alpn_01_setup from the md_store_save of the key on: the certificate
\* is saved when the key was.
tls_alpn_01_pkey_saved(k, s, authz, fault) ==
    IF s.rv # APR_SUCCESS
    THEN cha_result("cha_tls_alpn_01_setup", s.rv, [authz EXCEPT !.dir = authz.domain],
                    s.store, k.cha, FALSE,
                    {StoreKey(authz.domain, MD_FN_TLSALPN01_CERT)},
                    {StoreKey(authz.domain, MD_FN_TLSALPN01_PKEY)})
    ELSE tls_alpn_01_cert_saved(
             k,
             md_store_save(s.store, authz.domain, MD_FN_TLSALPN01_CERT,
                           md_cert_make_tls_alpn_01(
                               authz.domain,
                               "critical,DER:04:20:"
                                   \o md_crypt_sha256_digest_hex(k.cha.key_authz)),
                           fault = "save_cert"),
             authz)

\* cha_tls_alpn_01_setup inside "if (... || APR_STATUS_IS_ENOENT(rv))", from
\* the second setup_key_authz on: md_pkey_gen, md_crypt_sha256_digest_hex and
\* md_cert_make_tls_alpn_01 leave through "goto out" when they fail.
tls_alpn_01_rekeyed(k, authz, store, fault) ==
    IF k.rv # APR_SUCCESS
    THEN cha_result("cha_tls_alpn_01_setup", k.rv, authz, store, k.cha, FALSE,
                    {StoreKey(authz.domain, MD_FN_TLSALPN01_CERT)}, {})
    ELSE IF fault \in {"pkey_gen", "digest", "cert"}
    THEN cha_result("cha_tls_alpn_01_setup", APR_EGENERAL, authz, store, k.cha, FALSE,
                    {StoreKey(authz.domain, MD_FN_TLSALPN01_CERT)}, {})
    ELSE tls_alpn_01_pkey_saved(
             k,
             md_store_save(store, authz.domain, MD_FN_TLSALPN01_PKEY, "pkey",
                           fault = "save"),
             authz, fault)

\* cha_tls_alpn_01_setup from md_store_load on: l is what it gave.
tls_alpn_01_loaded(k, l, authz, store, fault) ==
    IF (l.rv = APR_SUCCESS /\ ~md_cert_covers_domain(l.data, authz.domain))
       \/ l.rv = APR_ENOENT
    THEN tls_alpn_01_rekeyed(setup_key_authz(k.cha, fault), authz, store, fault)
    ELSE cha_result("cha_tls_alpn_01_setup", l.rv, authz, store, k.cha,
                    l.rv = APR_SUCCESS /\ k.changed,
                    {StoreKey(authz.domain, MD_FN_TLSALPN01_CERT)}, {})

\* cha_tls_alpn_01_setup from the first setup_key_authz on.
tls_alpn_01_keyed(k, authz, store, fault) ==
    IF k.rv # APR_SUCCESS
    THEN cha_result("cha_tls_alpn_01_setup", k.rv, authz, store, k.cha, FALSE, {}, {})
    ELSE tls_alpn_01_loaded(
             k, md_store_load(store, authz.domain, MD_FN_TLSALPN01_CERT, fault),
             authz, store, fault)

\* cha_tls_alpn_01_setup(cha, authz, acme, store, key_spec, p)
cha_tls_alpn_01_setup(cha, authz, store, fault) ==
    tls_alpn_01_keyed(setup_key_authz(cha, fault), authz, store, fault)

MD_TLSSNI01_DNS_SUFFIX == ".acme.invalid"

\* setup_cha_dns(&dns, cha, p), when the digest is made: the digest of the key
\* authorization, in lower case with a dot after 32 characters, and the suffix.
setup_cha_dns(cha) ==
    md_crypt_sha256_digest_hex(cha.key_authz) \o MD_TLSSNI01_DNS_SUFFIX

\* cha_tls_sni_01_setup from the md_store_save of the certificate on.
tls_sni_01_cert_saved(k, s, cha_dns, authz) ==
    cha_result("cha_tls_sni_01_setup", s.rv, [authz EXCEPT !.dir = cha_dns],
               s.store, k.cha, s.rv = APR_SUCCESS,
               {StoreKey(cha_dns, MD_FN_TLSSNI01_CERT)},
               {StoreKey(cha_dns, MD_FN_TLSSNI01_PKEY),
                StoreKey(cha_dns, MD_FN_TLSSNI01_CERT)})

\* cha_tls_sni_01_setup from the md_store_save of the key on.
tls_sni_01_pkey_saved(k, s, cha_dns, authz, fault) ==
    IF s.rv # APR_SUCCESS
    THEN cha_result("cha_tls_sni_01_setup", s.rv, [authz EXCEPT !.dir = cha_dns],
                    s.store, k.cha, FALSE,
                    {StoreKey(cha_dns, MD_FN_TLSSNI01_CERT)},
                    {StoreKey(cha_dns, MD_FN_TLSSNI01_PKEY)})
    ELSE tls_sni_01_cert_saved(
             k,
             md_store_save(s.store, cha_dns, MD_FN_TLSSNI01_CERT,
                           md_cert_self_sign(authz.domain, {cha_dns}),
                           fault = "save_cert"),
             cha_dns, authz)

\* cha_tls_sni_01_setup from md_store_load on: l is what it gave; md_pkey_gen
\* and md_cert_self_sign leave through "goto out" when they fail.
tls_sni_01_loaded(k, l, cha_dns, authz, store, fault) ==
    IF (l.rv = APR_SUCCESS /\ ~md_cert_covers_domain(l.data, cha_dns))
       \/ l.rv = APR_ENOENT
    THEN IF fault \in {"pkey_gen", "cert"}
         THEN cha_result("cha_tls_sni_01_setup", APR_EGENERAL, authz, store, k.cha,
                         FALSE, {StoreKey(cha_dns, MD_FN_TLSSNI01_CERT)}, {})
         ELSE tls_sni_01_pkey_saved(
                  k,
                  md_store_save(store, cha_dns, MD_FN_TLSSNI01_PKEY, "pkey",
                                fault = "save"),
                  cha_dns, authz, fault)
    ELSE cha_result("cha_tls_sni_01_setup", l.rv, authz, store, k.cha,
                    l.rv = APR_SUCCESS /\ k.changed,
                    {StoreKey(cha_dns, MD_FN_TLSSNI01_CERT)}, {})

\* cha_tls_sni_01_setup from setup_key_authz on, then setup_cha_dns.
tls_sni_01_keyed(k, authz, store, fault) ==
    IF k.rv # APR_SUCCESS
    THEN cha_result("cha_tls_sni_01_setup", k.rv, authz, store, k.cha, FALSE, {}, {})
    ELSE IF fault = "digest"
    THEN cha_result("cha_tls_sni_01_setup", APR_EGENERAL, authz, store, k.cha, FALSE,
                    {}, {})
    ELSE tls_sni_01_loaded(
             k,
             md_store_load(store, setup_cha_dns(k.cha), MD_FN_TLSSNI01_CERT, fault),
             setup_cha_dns(k.cha), authz, store, fault)

\* cha_tls_sni_01_setup(cha, authz, acme, store, key_spec, p)
cha_tls_sni_01_setup(cha, authz, store, fault) ==
    tls_sni_01_keyed(setup_key_authz(cha, fault), authz, store, fault)

\* The challenge of a call that accepted none.
NoCha == [index |-> 0, type |-> <<>>, uri |-> NULL, token |-> NULL, key_authz |-> NULL]

\* md_acme_authz_respond from the handler lookup on, cha being accepted.
respond_start(cha, authz, store, fault) ==
    CASE cha_starter(cha.type) = "cha_http_01_setup" ->
             cha_http_01_setup(cha, authz, store, fault)
      [] cha_starter(cha.type) = "cha_tls_alpn_01_setup" ->
             cha_tls_alpn_01_setup(cha, authz, store, fault)
      [] cha_starter(cha.type) = "cha_tls_sni_01_setup" ->
             cha_tls_sni_01_setup(cha, authz, store, fault)
      [] OTHER ->
             cha_result("none", APR_ENOTIMPL, authz, store, cha, FALSE, {}, {})

\* md_acme_authz_respond from "if (!fctx.accepted)" on: index is the index in
\* the resource of the accepted challenge, 0 when none was accepted.
respond_accepted(index, authz, store, fault) ==
    IF index = 0
    THEN cha_result("none", APR_EINVAL, authz, store, NoCha, FALSE, {}, {})
    ELSE respond_start(cha_from_json(index, authz.resource.challenges[index]),
                       authz, store, fault)

\* md_acme_authz_respond(authz, acme, store, challenges, key_spec, p), up to
\* the md_acme_POST of the handler.
md_acme_authz_respond(authz, store, challenges, fault) ==
    respond_accepted(find_accepted(challenges, authz.resource, 1), authz, store, fault)

(***************************************************************************)
(* The arguments of md_acme_authz_respond: the authorizations (with the    *)
(* resource the server gave for them), the configured challenge types; and *)
(* what the store holds when the session starts.                           *)
(***************************************************************************)
SeqsUpTo(S, n) == UNION {[1..k -> S] : k \in 0..n}

\* Stands, in a list of offered types, for a challenge without "type".
Untyped == <<"untyped">>

FreshKeyAuthz == Token \o "." \o Thumb64
KeyAuthzs == {NULL, FreshKeyAuthz, StaleKeyAuthz}

\* The challenge at index i of a resource: of the given type, with the key
\* authorization ka when the server gives one.
ChallengeJson(i, type, ka) ==
    IF type = Untyped
    THEN IF ka = NULL
         THEN [uri |-> ChallengeUri(i), token |-> Token]
         ELSE [uri |-> ChallengeUri(i), token |-> Token, keyAuthorization |-> ka]
    ELSE IF ka = NULL
         THEN [type |-> type, uri |-> ChallengeUri(i), token |-> Token]
         ELSE [type |-> type, uri |-> ChallengeUri(i), token |-> Token,
               keyAuthorization |-> ka]

MD_ACME_AUTHZ_S_UNKNOWN == "MD_ACME_AUTHZ_S_UNKNOWN"
MD_ACME_AUTHZ_S_PENDING == "MD_ACME_AUTHZ_S_PENDING"
MD_ACME_AUTHZ_S_VALID   == "MD_ACME_AUTHZ_S_VALID"
MD_ACME_AUTHZ_S_INVALID == "MD_ACME_AUTHZ_S_INVALID"

\* md_acme_authz_t of a pending authorization whose resource lists challenges
\* of the given types.
AuthzWith(types, ka) ==
    [url |-> AuthzUrl, domain |-> Domain, state |-> MD_ACME_AUTHZ_S_PENDING,
     dir |-> NULL,
     resource |-> [status |-> "pending",
                   challenges |-> [i \in 1..Len(types) |-> ChallengeJson(i, types[i], ka)]]]

Authzs ==
    {AuthzWith(types, ka) :
        types \in SeqsUpTo(OfferedTypes \cup {Untyped}, MaxChallenges), ka \in KeyAuthzs}

Preferences == SeqsUpTo(PreferredTypes, MaxPreferences)

EmptyStore == [k \in {} |-> NULL]

\* A store that holds what the handlers leave for Domain and the account key.
FreshStore ==
    (StoreKey(Domain, MD_FN_HTTP01) :> FreshKeyAuthz)
    @@ (StoreKey(Domain, MD_FN_TLSALPN01_CERT) :>
          md_cert_make_tls_alpn_01(
              Domain, "critical,DER:04:20:" \o md_crypt_sha256_digest_hex(FreshKeyAuthz)))
    @@ (StoreKey(md_crypt_sha256_digest_hex(FreshKeyAuthz) \o MD_TLSSNI01_DNS_SUFFIX,
                 MD_FN_TLSSNI01_CERT) :>
          md_cert_self_sign(
              Domain, {md_crypt_sha256_digest_hex(FreshKeyAuthz) \o MD_TLSSNI01_DNS_SUFFIX}))
    @@ (StoreKey(Domain, MD_FN_TLSALPN01_PKEY) :> "pkey")
    @@ (StoreKey(md_crypt_sha256_digest_hex(FreshKeyAuthz) \o MD_TLSSNI01_DNS_SUFFIX,
                 MD_FN_TLSSNI01_PKEY) :> "pkey")

\* A store that holds what the handlers left for Domain when the challenge
\* had another token or the account another key.
EarlierStore ==
    (StoreKey(Domain, MD_FN_HTTP01) :> StaleKeyAuthz)
    @@ (StoreKey(Domain, MD_FN_TLSALPN01_CERT) :>
          md_cert_make_tls_alpn_01(
              Domain, "critical,DER:04:20:" \o md_crypt_sha256_digest_hex(StaleKeyAuthz)))
    @@ (StoreKey(Domain, MD_FN_TLSALPN01_PKEY) :> "pkey")

\* A store that holds files of the same names made for something else.
StaleStore ==
    (StoreKey(Domain, MD_FN_HTTP01) :> StaleKeyAuthz)
    @@ (StoreKey(Domain, MD_FN_TLSALPN01_CERT) :>
          md_cert_make_tls_alpn_01("other.example.org", NULL))
    @@ (StoreKey(md_crypt_sha256_digest_hex(FreshKeyAuthz) \o MD_TLSSNI01_DNS_SUFFIX,
                 MD_FN_TLSSNI01_CERT) :>
          md_cert_self_sign(Domain, {"other.acme.invalid"}))

InitialStores == {EmptyStore, FreshStore, StaleStore}

\* The collaborator failures that can show in a call that starts the handler
\* start.
FaultsOf(start) ==
    CASE start = "none" -> {"none"}
      [] start = "cha_http_01_setup" -> {"none", "thumb", "load", "save"}
      [] OTHER -> Faults

\* The handler md_acme_authz_respond starts for these arguments, "none" when
\* it starts none.
starter_for(authz, challenges) ==
    IF find_accepted(challenges, authz.resource, 1) = 0 THEN "none"
    ELSE cha_starter(
             authz.resource.challenges[find_accepted(challenges, authz.resource, 1)].type)

(***************************************************************************)
(* State.                                                                  *)
(***************************************************************************)
VARIABLES
    acme,        \* md_acme_t: the directory fields and the nonce
    pc,          \* where the current md_acme_POST call stands
    req,         \* md_acme_req_t of the current md_acme_POST call
    lastX,       \* the HTTP exchange the last step made, if it made one
    lastSetup,   \* the md_acme_setup run the last step made, if it made one
    returned,    \* the md_acme_GET / md_acme_POST calls that returned in the last step
    usedNonces,  \* the nonces that went out in the POSTs dispatched so far
    issued,      \* the server has handed out the Replay-Nonce values 1..issued
    replayed,    \* whether the server handed out one of them twice
    store,       \* md_store_t: the files of the challenge group
    call,        \* the md_acme_authz_respond call the last step made, if it made one
    responds,    \* the number of md_acme_authz_respond calls so far
    disp,        \* what on_response did with the response of the last step
    op           \* the call that is followed from its arguments to its return

vars == <<acme, pc, req, lastX, lastSetup, returned, usedNonces, issued, replayed,
          store, call, responds, disp, op>>

\* md_acme_req_t: method, url and the protected header "nonce" (has_nonce:
\* the header is set).  What md_acme_req_send did for the request so far is
\* kept with it: nonce0, the session nonce when the call was made;
\* setup_ran, md_acme_setup ran; nonce1, the session nonce when the nonce
\* was looked for; head_sent, a HEAD was answered, for head_url, with
\* Replay-Nonce head_nonce.  consumer names the on_json / on_res the request
\* was given: "caller" for callbacks of the caller's own.
NoReq == [method |-> "none", url |-> NULL, has_nonce |-> FALSE, nonce |-> NoNonce,
          nonce0 |-> NoNonce, setup_ran |-> FALSE, nonce1 |-> NoNonce,
          head_sent |-> FALSE, head_url |-> NULL, head_nonce |-> NoNonce,
          consumer |-> "caller"]

\* The callbacks a caller of md_acme_GET / md_acme_POST passes in: whether it
\* gives on_json and on_res (one of them at least, as the calls assert) and
\* the value the callback that consumes the response returns.  The engine
\* reads them in on_response only.
Callbacks ==
    {[on_json |-> oj, on_res |-> orr, rv |-> crv] :
        oj \in BOOLEAN, orr \in BOOLEAN, crv \in {APR_SUCCESS, APR_EGENERAL}}
    \ {[on_json |-> FALSE, on_res |-> FALSE, rv |-> crv] :
         crv \in {APR_SUCCESS, APR_EGENERAL}}

\* on_response reads the callbacks for a response with a status in [200,300)
\* only; for any other response one choice stands for all.
CallbacksFor(res) ==
    IF res.rv = APR_SUCCESS /\ Is2xx(res.status) THEN Callbacks
    ELSE {[on_json |-> TRUE, on_res |-> FALSE, rv |-> APR_SUCCESS]}

NoX == [method |-> "none", pnonce |-> NoNonce, ok |-> FALSE, is2xx |-> FALSE,
        rnonce |-> NoNonce]

NoSetup == [ran |-> FALSE, get_rv |-> APR_SUCCESS, keys |-> {}, rv |-> APR_SUCCESS,
            done |-> 0]

Exchange(method, pnonce, res) ==
    [method |-> method, pnonce |-> pnonce, ok |-> res.rv = APR_SUCCESS,
     is2xx |-> Is2xx(res.status), rnonce |-> res.nonce]

\* The server puts no Replay-Nonce on a response, or a value it has not used
\* before (the next one: which one it is does not matter), or one it has
\* used before.
ServerSends(res) == res.nonce <= issued + 1

Issue(n) ==
    /\ issued' = IF n > issued THEN n ELSE issued
    /\ replayed' = (replayed \/ (n # NoNonce /\ n <= issued))

\* No md_acme_authz_respond call.  Of a call: its arguments challenges and
\* authz, the store and the session nonce it found; the handler it started
\* and the index of the challenge it accepted; post, whether the handler goes
\* on to md_acme_POST, and rv, what the call returned when it does not; the
\* authz as the call left it, and the store keys it loaded and saved.
NoCall == [called |-> FALSE, challenges |-> <<>>, authz |-> NULL, store |-> EmptyStore,
           nonce |-> NoNonce, start |-> "none", accepted |-> 0, post |-> FALSE,
           rv |-> APR_SUCCESS, authz_after |-> NULL, loaded |-> {}, saved |-> {}]

\* No response was handed to on_response.  Of one that was: ok, the transfer
\* succeeded; its status, content type, whether its body is well-formed JSON,
\* the "type" member of the body (typed: it has one) and the Location header;
\* reg_json / reg_res, the request had an on_json / on_res; on_json / on_res,
\* that callback was invoked; cbrv, what the invoked callback returns; rv, what
\* on_response returned.
NoDisp == [ran |-> FALSE, ok |-> FALSE, status |-> 0, ctype |-> CT_TEXT,
           parses |-> FALSE, typed |-> FALSE, ptype |-> <<>>, location |-> NULL,
           reg_json |-> FALSE, reg_res |-> FALSE, on_json |-> FALSE,
           on_res |-> FALSE, cbrv |-> APR_SUCCESS, rv |-> APR_SUCCESS,
           body |-> EmptyJson]

\* on_response was handed res, with the Location header loc, for a request
\* with the callbacks r, and did o.
Dispatched(r, res, loc, o) ==
    [ran |-> TRUE, ok |-> res.rv = APR_SUCCESS, status |-> res.status,
     ctype |-> res.ctype, parses |-> res.parses,
     typed |-> "type" \in DOMAIN res.json,
     ptype |-> IF "type" \in DOMAIN res.json THEN res.json.type ELSE <<>>,
     location |-> loc,
     reg_json |-> r.on_json, reg_res |-> r.on_res, on_json |-> o.on_json,
     on_res |-> o.on_res, cbrv |-> r.rv, rv |-> o.rv, body |-> res.json]

\* No call is followed.  Of one that is: kind, the function called; in, its
\* arguments; returned, whether it has returned, and rv, what it returned;
\* out, what it left in its out-parameters.
NoOp == [kind |-> "none", in |-> <<>>, returned |-> FALSE, rv |-> APR_SUCCESS,
         out |-> <<>>]

\* The followed call after the md_acme_POST it ends with returned rv.
PostReturned(o, rv) ==
    IF o.kind = "none" THEN o ELSE [o EXCEPT !.returned = TRUE, !.rv = rv]

\* md_acme_create: the session right after construction.
FreshAcme == [url |-> ServerUrl, new_authz |-> NULL, new_cert |-> NULL,
              new_reg |-> NULL, revoke_cert |-> NULL, nonce |-> NoNonce]

\* The session after a md_acme_setup that succeeded.
ResolvedAcme == [url |-> ServerUrl, new_authz |-> DirUrl("new-authz"),
                 new_cert |-> DirUrl("new-cert"), new_reg |-> DirUrl("new-reg"),
                 revoke_cert |-> DirUrl("revoke-cert"), nonce |-> NoNonce]

\* A session a with the store s, nothing called yet.
InitWith(a, s) ==
    /\ acme = a
    /\ store = s
    /\ call = NoCall
    /\ responds = 0
    /\ disp = NoDisp
    /\ op = NoOp
    /\ pc = "idle"
    /\ req = NoReq
    /\ lastX = NoX
    /\ lastSetup = NoSetup
    /\ returned = <<>>
    /\ usedNonces = {}
    /\ issued = 0
    /\ replayed = FALSE

Init == InitWith(FreshAcme, EmptyStore)

\* A session, fresh or resolved, with a store that may hold earlier files.
InitAuthz ==
    \E a \in {FreshAcme, ResolvedAcme}, s \in InitialStores : InitWith(a, s)

(***************************************************************************)
(* GET requests: md_acme_req_send for a GET makes one exchange.            *)
(***************************************************************************)
\* md_acme_req_send(req) for a GET request with callbacks cb: irv is what its
\* on_init returns (APR_SUCCESS when it has none), res the response.  The
\* result is that of on_response when the GET was dispatched; done is the
\* number of md_acme_req_done calls.
req_send_GET(cb, irv, res, nonce) ==
    IF irv # APR_SUCCESS
    THEN [rv |-> irv, nonce |-> nonce, on_json |-> FALSE, on_res |-> FALSE,
          done |-> 1]
    ELSE on_response(cb, res, nonce, cb.rv, cb.rv)

\* "*pjson = (APR_SUCCESS == rv)? ctx.json : NULL", o being what md_acme_GET
\* returned.
get_json_result(o, res) ==
    [rv |-> o.rv, nonce |-> o.nonce, done |-> o.done, on_json |-> o.on_json,
     on_res |-> o.on_res,
     json |-> IF o.rv = APR_SUCCESS THEN res.json ELSE EmptyJson]

\* on_got_json clones the body and returns APR_SUCCESS.
on_got_json == [on_json |-> TRUE, on_res |-> FALSE, rv |-> APR_SUCCESS]

\* md_acme_get_json(&json, acme, url, p)
md_acme_get_json(url, res, nonce) ==
    get_json_result(req_send_GET(on_got_json, APR_SUCCESS, res, nonce), res)

\* A completeness test that forgets revoke_cert.
directory_complete_three(a) ==
    /\ a.new_authz # NULL
    /\ a.new_cert # NULL
    /\ a.new_reg # NULL

\* "acme->new_authz && acme->new_cert && acme->new_reg && acme->revoke_cert"
directory_complete(a) ==
    /\ a.new_authz # NULL
    /\ a.new_cert # NULL
    /\ a.new_reg # NULL
    /\ a.revoke_cert # NULL

\* md_acme_setup(acme) from the return of md_acme_get_json on: g is what
\* md_acme_get_json gave.
setup_directory(a, g) ==
    LET b == IF g.rv = APR_SUCCESS
             THEN [a EXCEPT !.nonce = g.nonce,
                            !.new_authz = md_json_gets(g.json, "new-authz"),
                            !.new_cert = md_json_gets(g.json, "new-cert"),
                            !.new_reg = md_json_gets(g.json, "new-reg"),
                            !.revoke_cert = md_json_gets(g.json, "revoke-cert")]
             ELSE [a EXCEPT !.nonce = g.nonce]
    IN  [acme |-> b, get_rv |-> g.rv, done |-> g.done, on_json |-> g.on_json,
         on_res |-> g.on_res,
         rv |-> IF g.rv # APR_SUCCESS THEN g.rv
                ELSE IF directory_complete(b) THEN APR_SUCCESS
                ELSE APR_EINVAL]

\* md_acme_setup(acme) when the directory GET is answered with res.
md_acme_setup(a, res) ==
    setup_directory(a, md_acme_get_json(a.url, res, a.nonce))

\* What a run s of md_acme_setup did, the directory GET answered with res.
SetupRun(s, res) ==
    [ran |-> TRUE, get_rv |-> s.get_rv, rv |-> s.rv, done |-> s.done,
     keys |-> IF s.get_rv = APR_SUCCESS THEN DOMAIN res.json ELSE {}]

Returned(method, rv, done, exit) ==
    [method |-> method, ok |-> rv = APR_SUCCESS, done |-> done, exit |-> exit]

\* The session, the server and the record of the step after a run s of
\* md_acme_setup whose directory GET was answered with res.
SetupDone(s, res) ==
    /\ ServerSends(res)
    /\ acme' = s.acme
    /\ lastX' = Exchange("GET", NoNonce, res)
    /\ lastSetup' = SetupRun(s, res)
    /\ disp' = Dispatched(on_got_json, res, NULL,
                          [rv |-> s.get_rv, on_json |-> s.on_json, on_res |-> s.on_res])
    /\ Issue(res.nonce)

\* A caller runs md_acme_setup on the idle session.
Setup ==
    /\ pc = "idle"
    /\ \E res \in Responses(acme.url) :
         /\ SetupDone(md_acme_setup(acme, res), res)
         /\ returned' = <<Returned("GET", lastSetup'.get_rv, lastSetup'.done, "response")>>
    /\ op' = NoOp
    /\ UNCHANGED <<pc, req, usedNonces, store, call, responds>>

\* A caller runs md_acme_GET(acme, url, on_init, on_json, on_res, baton) with
\* callbacks of its own, and its on_init fails: nothing is sent.
GETInitFails ==
    /\ pc = "idle"
    /\ \E cb \in Callbacks :
         LET o == req_send_GET(cb, APR_EGENERAL, CHOOSE res \in NullUrlResponses : TRUE,
                               acme.nonce)
         IN  /\ acme' = [acme EXCEPT !.nonce = o.nonce]
             /\ returned' = <<Returned("GET", o.rv, o.done, "on_init")>>
    /\ lastX' = NoX
    /\ lastSetup' = NoSetup
    /\ disp' = NoDisp
    /\ op' = NoOp
    /\ UNCHANGED <<pc, req, usedNonces, issued, replayed, store, call, responds>>

\* The session and the record of the step after on_response did o with the
\* response res (Location header loc) to a request with the callbacks cb:
\* the call returns, unless the process was killed in inspect_problem.
Answered(method, pnonce, cb, res, loc, o) ==
    /\ ServerSends(res)
    /\ acme' = [acme EXCEPT !.nonce = o.nonce]
    /\ lastX' = Exchange(method, pnonce, res)
    /\ disp' = Dispatched(cb, res, loc, o)
    /\ pc' = IF o.rv = SIGSEGV THEN "crashed" ELSE "idle"
    /\ returned' = IF o.rv = SIGSEGV THEN <<>>
                   ELSE <<Returned(method, o.rv, o.done, "response")>>
    /\ Issue(res.nonce)

\* A caller runs md_acme_GET with callbacks of its own, and the GET is sent.
GET ==
    /\ pc = "idle"
    /\ \E url \in {OtherUrl} :
       \E res \in Responses(url) :
       \E cb \in CallbacksFor(res) :
         Answered("GET", NoNonce, cb, res, NULL,
                  req_send_GET(cb, APR_SUCCESS, res, acme.nonce))
    /\ lastSetup' = NoSetup
    /\ op' = NoOp
    /\ UNCHANGED <<req, usedNonces, store, call, responds>>

\* A caller that passes neither on_json nor on_res.
NoCallbacks == [on_json |-> FALSE, on_res |-> FALSE, rv |-> APR_SUCCESS]

\* The followed call of md_acme_GET or md_acme_POST (kind) without on_json and
\* without on_res, on the session a.
Unconsumed(kind, a) ==
    [kind |-> kind, in |-> [on_json |-> FALSE, on_res |-> FALSE, acme |-> a],
     returned |-> FALSE, rv |-> APR_SUCCESS, out |-> <<>>]

\* "assert(on_json || on_res)" ends the process.
Aborted ==
    /\ pc' = "crashed"
    /\ lastX' = NoX
    /\ returned' = <<>>
    /\ disp' = NoDisp
    /\ UNCHANGED <<acme, issued, replayed>>

\* A caller runs md_acme_GET with neither on_json nor on_res: the assertion
\* ends the process, or, compiled out, lets the GET be sent.
GETUnconsumed ==
    /\ pc = "idle"
    /\ \/ /\ Aborted
          /\ op' = Unconsumed("md_acme_GET", acme)
       \/ \E res \in Responses(OtherUrl) :
            /\ Answered("GET", NoNonce, NoCallbacks, res, NULL,
                        req_send_GET(NoCallbacks, APR_SUCCESS, res, acme.nonce))
            /\ op' = [Unconsumed("md_acme_GET", acme) EXCEPT
                        !.returned = disp'.rv # SIGSEGV, !.rv = disp'.rv]
    /\ lastSetup' = NoSetup
    /\ UNCHANGED <<req, usedNonces, store, call, responds>>

(***************************************************************************)
(* POST requests: md_acme_req_send for a POST makes up to three exchanges, *)
(* the directory GET of md_acme_setup, the HEAD of md_acme_new_nonce and   *)
(* the POST itself.  The transport invokes the response callback of every  *)
(* request it is given exactly once, also when the transfer fails.         *)
(***************************************************************************)
\* A test that never asks for a nonce.
nonce_missing_never(nonce) == FALSE

\* "if (!acme->nonce)": a nonce has to be fetched.
nonce_missing(nonce) == nonce = NoNonce

\* A session that keeps the nonce it has put into a request.
consumed_nonce_kept(nonce) == nonce

\* "acme->nonce = NULL" after the nonce went into the protected headers.
consumed_nonce(nonce) == NoNonce

\* md_acme_new_nonce(acme) when the HEAD is answered with res.
md_acme_new_nonce(a, res) ==
    [rv |-> res.rv, nonce |-> http_update_nonce(a.nonce, res.nonce)]

\* A caller runs md_acme_POST(acme, url, on_init, on_json, on_res, baton) with
\* callbacks of its own: md_acme_req_create, then md_acme_req_send begins.
POST ==
    /\ pc = "idle"
    /\ \E url \in {OtherUrl} :
         req' = [NoReq EXCEPT !.method = "POST", !.url = url, !.nonce0 = acme.nonce]
    /\ pc' = "setup"
    /\ lastX' = NoX
    /\ lastSetup' = NoSetup
    /\ returned' = <<>>
    /\ disp' = NoDisp
    /\ op' = NoOp
    /\ UNCHANGED <<acme, usedNonces, issued, replayed, store, call, responds>>

\* A caller runs md_acme_POST with neither on_json nor on_res: the assertion
\* ends the process, or, compiled out, lets md_acme_req_send begin.
POSTUnconsumed ==
    /\ pc = "idle"
    /\ op' = Unconsumed("md_acme_POST", acme)
    /\ \/ /\ Aborted
          /\ req' = NoReq
       \/ /\ pc' = "setup"
          /\ req' = [NoReq EXCEPT !.method = "POST", !.url = OtherUrl,
                                  !.nonce0 = acme.nonce, !.consumer = "none"]
          /\ lastX' = NoX
          /\ returned' = <<>>
          /\ disp' = NoDisp
          /\ UNCHANGED <<acme, issued, replayed>>
    /\ lastSetup' = NoSetup
    /\ UNCHANGED <<usedNonces, store, call, responds>>

\* md_acme_req_send, "if (!acme->new_authz) md_acme_setup(acme)": a failing
\* setup returns at once.
PostSetup ==
    /\ pc = "setup"
    /\ IF acme.new_authz # NULL
       THEN /\ pc' = "nonce"
            /\ req' = [req EXCEPT !.nonce1 = acme.nonce]
            /\ lastX' = NoX
            /\ lastSetup' = NoSetup
            /\ returned' = <<>>
            /\ disp' = NoDisp
            /\ UNCHANGED <<acme, issued, replayed, op>>
       ELSE \E res \in Responses(acme.url) :
              /\ SetupDone(md_acme_setup(acme, res), res)
              /\ op' = IF lastSetup'.rv # APR_SUCCESS
                       THEN PostReturned(op, lastSetup'.rv) ELSE op
              /\ IF lastSetup'.rv # APR_SUCCESS
                 THEN /\ pc' = "idle"
                      /\ req' = NoReq
                      /\ returned' =
                           <<Returned("GET", lastSetup'.get_rv, lastSetup'.done, "response"),
                             Returned("POST", lastSetup'.rv, 0, "setup")>>
                 ELSE /\ pc' = "nonce"
                      /\ req' = [req EXCEPT !.setup_ran = TRUE,
                                            !.nonce1 = acme'.nonce]
                      /\ returned' =
                           <<Returned("GET", lastSetup'.get_rv, lastSetup'.done, "response")>>
    /\ call' = NoCall
    /\ UNCHANGED <<usedNonces, store, responds>>

\* md_acme_req_send, "if (!acme->nonce) md_acme_new_nonce(acme)": a failing
\* HEAD returns at once.
PostNonce ==
    /\ pc = "nonce"
    /\ IF ~nonce_missing(acme.nonce)
       THEN /\ pc' = "install"
            /\ lastX' = NoX
            /\ returned' = <<>>
            /\ UNCHANGED <<acme, req, issued, replayed, op>>
       ELSE \E res \in Responses(acme.new_reg) :
              LET h == md_acme_new_nonce(acme, res)
              IN  /\ ServerSends(res)
                  /\ acme' = [acme EXCEPT !.nonce = h.nonce]
                  /\ lastX' = Exchange("HEAD", NoNonce, res)
                  /\ Issue(res.nonce)
                  /\ op' = IF h.rv # APR_SUCCESS THEN PostReturned(op, h.rv) ELSE op
                  /\ IF h.rv # APR_SUCCESS
                     THEN /\ pc' = "idle"
                          /\ req' = NoReq
                          /\ returned' = <<Returned("POST", h.rv, 0, "nonce")>>
                     ELSE /\ pc' = "install"
                          /\ req' = [req EXCEPT !.head_sent = TRUE,
                                                !.head_url = acme.new_reg,
                                                !.head_nonce = res.nonce]
                          /\ returned' = <<>>
    /\ lastSetup' = NoSetup
    /\ call' = NoCall
    /\ disp' = NoDisp
    /\ UNCHANGED <<usedNonces, store, responds>>

\* md_acme_req_send: the nonce goes into the protected headers and leaves the
\* session, then on_init signs the body; a failing on_init ends the call.
PostInit ==
    /\ pc = "install"
    /\ acme' = [acme EXCEPT !.nonce = consumed_nonce(acme.nonce)]
    /\ \E irv \in {APR_SUCCESS, APR_EGENERAL} :
         /\ IF irv = APR_SUCCESS
            THEN /\ pc' = "dispatch"
                 /\ req' = [req EXCEPT !.has_nonce = TRUE, !.nonce = acme.nonce]
                 /\ returned' = <<>>
            ELSE /\ pc' = "idle"
                 /\ req' = NoReq
                 /\ returned' = <<Returned("POST", irv, 1, "on_init")>>
         /\ op' = IF irv = APR_SUCCESS THEN op ELSE PostReturned(op, irv)
    /\ lastX' = NoX
    /\ lastSetup' = NoSetup
    /\ disp' = NoDisp
    /\ call' = NoCall
    /\ UNCHANGED <<usedNonces, issued, replayed, store, responds>>

\* authz_http_set, the on_json of the POST a challenge handler makes, returns
\* APR_SUCCESS.
authz_http_set == [on_json |-> TRUE, on_res |-> FALSE, rv |-> APR_SUCCESS]

\* authz_created, the on_json of md_acme_authz_register: APR_EINVAL when the
\* response has no Location header.
authz_created(location) ==
    [on_json |-> TRUE, on_res |-> FALSE,
     rv |-> IF location # NULL THEN APR_SUCCESS ELSE APR_EINVAL]

\* The Location header of the response, where the consumer reads it.
LocationsOf(consumer) ==
    IF consumer = "authz_created" THEN {NULL, AuthzUrl} ELSE {NULL}

\* The on_json / on_res of a request, by its consumer.
CallbacksOf(consumer, res, loc) ==
    CASE consumer = "authz_http_set" -> {authz_http_set}
      [] consumer = "authz_created" -> {authz_created(loc)}
      [] consumer = "none" -> {NoCallbacks}
      [] OTHER -> CallbacksFor(res)

\* md_acme_authz_create: a zeroed md_acme_authz_t.
md_acme_authz_create ==
    [url |-> NULL, domain |-> NULL, state |-> MD_ACME_AUTHZ_S_UNKNOWN, dir |-> NULL,
     resource |-> EmptyJson]

\* ctx.authz after the POST of md_acme_authz_register for domain, d being the
\* dispatch of the response with the given body: authz_created makes it when
\* it runs and finds the Location header.
ctx_authz(domain, body, d) ==
    [set |-> d.on_json /\ d.location # NULL,
     authz |-> IF d.on_json /\ d.location # NULL
               THEN [md_acme_authz_create EXCEPT
                       !.domain = domain, !.url = d.location, !.resource = body]
               ELSE md_acme_authz_create]

\* "*pauthz = (APR_SUCCESS == rv)? ctx.authz : NULL"; set tells whether
\* *pauthz is not NULL.
pauthz(rv, ctx) ==
    IF rv = APR_SUCCESS THEN ctx ELSE [set |-> FALSE, authz |-> md_acme_authz_create]

\* The followed call after the md_acme_POST it ends with was answered.
PostDone(o, d, body) ==
    IF o.kind = "md_acme_authz_register"
    THEN [o EXCEPT !.returned = TRUE, !.rv = d.rv,
                   !.out = pauthz(d.rv, ctx_authz(o.in.domain, body, d))]
    ELSE PostReturned(o, d.rv)

\* md_acme_req_send: md_http_POSTd, on_response and md_http_await.  "req = NULL"
\* after the dispatch leaves the release to on_response.
PostDispatch ==
    /\ pc = "dispatch"
    /\ \E res \in Responses(req.url) :
       \E loc \in LocationsOf(req.consumer) :
       \E cb \in CallbacksOf(req.consumer, res, loc) :
         /\ Answered("POST", req.nonce, cb, res, loc,
                     on_response(cb, res, acme.nonce, cb.rv, cb.rv))
         /\ op' = IF disp'.rv = SIGSEGV THEN op ELSE PostDone(op, disp', res.json)
    /\ usedNonces' = IF req.nonce = NoNonce THEN usedNonces
                      ELSE usedNonces \cup {req.nonce}
    /\ req' = NoReq
    /\ lastSetup' = NoSetup
    /\ call' = NoCall
    /\ UNCHANGED <<store, responds>>

(***************************************************************************)
(* md_acme_authz_respond: the selection and the handler up to its          *)
(* md_acme_POST are one step; the POST, when the handler makes it, goes on  *)
(* through the steps of md_acme_req_send.                                  *)
(***************************************************************************)
\* The state after the call with the given arguments did r.
RespondDone(authz, challenges, r) ==
    /\ call' = [called |-> TRUE, challenges |-> challenges, authz |-> authz,
                store |-> store, nonce |-> acme.nonce, start |-> r.start,
                accepted |-> r.accepted, post |-> r.post, rv |-> r.rv,
                authz_after |-> r.authz, loaded |-> r.loaded, saved |-> r.saved]
    /\ store' = r.store
    /\ IF r.post
       THEN /\ pc' = "setup"
            /\ req' = [NoReq EXCEPT !.method = "POST", !.url = r.cha.uri,
                                    !.nonce0 = acme.nonce,
                                    !.consumer = "authz_http_set"]
       ELSE /\ pc' = "idle"
            /\ req' = NoReq

\* A caller runs md_acme_authz_respond(authz, acme, store, challenges,
\* key_spec, p) on the idle session.
Respond ==
    /\ pc = "idle"
    /\ responds < MaxResponds
    /\ \E authz \in Authzs, challenges \in Preferences :
       \E fault \in FaultsOf(starter_for(authz, challenges)) :
         RespondDone(authz, challenges,
                     md_acme_authz_respond(authz, store, challenges, fault))
    /\ responds' = responds + 1
    /\ lastX' = NoX
    /\ lastSetup' = NoSetup
    /\ returned' = <<>>
    /\ disp' = NoDisp
    /\ op' = NoOp
    /\ UNCHANGED <<acme, usedNonces, issued, replayed>>

(***************************************************************************)
(* One call of md_acme_authz_respond that is followed to its return: on an *)
(* authorization with one challenge, of a type that has a handler, which   *)
(* the caller prefers.                                                     *)
(***************************************************************************)
\* What authz->dir holds when the call is made: nothing, the domain, or the
\* directory of an earlier challenge.
StaleDir == "old.acme.invalid"
Dirs == {NULL, Domain, StaleDir}

HandledTypes == {CHA_TYPES[i].name : i \in 1..Len(CHA_TYPES)}

\* The authorization with the one challenge of the given type.
AuthzOf(type, ka, dir) == [AuthzWith(<<type>>, ka) EXCEPT !.dir = dir]

\* The state after the call with the given arguments did r.
HandlerDone(authz, challenges, fault, r) ==
    /\ RespondDone(authz, challenges, r)
    /\ op' = [kind |-> "md_acme_authz_respond",
              in |-> [authz |-> authz, fault |-> fault, store |-> store],
              returned |-> ~r.post, rv |-> r.rv,
              out |-> [start |-> r.start, authz |-> r.authz, cha |-> r.cha,
                       post |-> r.post]]

\* A caller runs md_acme_authz_respond on the idle session, for such an
\* authorization.
RespondHandler ==
    /\ pc = "idle"
    /\ responds < MaxResponds
    /\ \E type \in HandledTypes, ka \in KeyAuthzs, dir \in Dirs :
       \E fault \in FaultsOf(cha_starter(type)) :
         HandlerDone(AuthzOf(type, ka, dir), <<type>>, fault,
                     md_acme_authz_respond(AuthzOf(type, ka, dir), store, <<type>>, fault))
    /\ responds' = responds + 1
    /\ lastX' = NoX
    /\ lastSetup' = NoSetup
    /\ returned' = <<>>
    /\ disp' = NoDisp
    /\ UNCHANGED <<acme, usedNonces, issued, replayed>>

(***************************************************************************)
(* md_acme_authz_update: one GET of the authorization url.                 *)
(***************************************************************************)
\* md_json_gets(json, k1, k2, NULL)
md_json_gets2(json, k1, k2) ==
    IF k1 \in DOMAIN json
    THEN IF k2 \in DOMAIN json[k1] THEN json[k1][k2] ELSE NULL
    ELSE NULL

\* The state for a status, MD_ACME_AUTHZ_S_UNKNOWN for one the code does not
\* know.
authz_state(s) ==
    CASE s = "pending" -> MD_ACME_AUTHZ_S_PENDING
      [] s = "valid"   -> MD_ACME_AUTHZ_S_VALID
      [] s = "invalid" -> MD_ACME_AUTHZ_S_INVALID
      [] OTHER         -> MD_ACME_AUTHZ_S_UNKNOWN

\* A md_acme_authz_update that lets a status it does not know pass.
authz_updated_lenient(authz, g) ==
    IF g.rv = APR_SUCCESS /\ md_json_gets(g.json, "status") # NULL
    THEN [rv |-> APR_SUCCESS,
          authz |-> [authz EXCEPT
                       !.domain = md_json_gets2(g.json, "identifier", "value"),
                       !.resource = g.json,
                       !.state = authz_state(md_json_gets(g.json, "status"))]]
    ELSE [rv |-> IF g.rv = APR_SUCCESS THEN APR_EINVAL ELSE g.rv,
          authz |-> [authz EXCEPT !.state = MD_ACME_AUTHZ_S_UNKNOWN]]

\* A md_acme_authz_update that leaves the state alone when it fails.
authz_updated_keeps(authz, g) ==
    IF g.rv = APR_SUCCESS /\ md_json_gets(g.json, "status") # NULL
    THEN [rv |-> IF authz_state(md_json_gets(g.json, "status")) = MD_ACME_AUTHZ_S_UNKNOWN
                 THEN APR_EINVAL ELSE APR_SUCCESS,
          authz |-> [authz EXCEPT
                       !.domain = md_json_gets2(g.json, "identifier", "value"),
                       !.resource = g.json,
                       !.state = authz_state(md_json_gets(g.json, "status"))]]
    ELSE [rv |-> IF g.rv = APR_SUCCESS THEN APR_EINVAL ELSE g.rv,
          authz |-> authz]

\* md_acme_authz_update(authz, acme, p) from the return of md_acme_get_json
\* on: g is what it gave (json is not NULL exactly when it succeeded).
authz_updated(authz, g) ==
    IF g.rv = APR_SUCCESS /\ md_json_gets(g.json, "status") # NULL
    THEN [rv |-> IF authz_state(md_json_gets(g.json, "status")) = MD_ACME_AUTHZ_S_UNKNOWN
                 THEN APR_EINVAL ELSE APR_SUCCESS,
          authz |-> [authz EXCEPT
                       !.domain = md_json_gets2(g.json, "identifier", "value"),
                       !.resource = g.json,
                       !.state = authz_state(md_json_gets(g.json, "status"))]]
    ELSE [rv |-> IF g.rv = APR_SUCCESS THEN APR_EINVAL ELSE g.rv,
          authz |-> [authz EXCEPT !.state = MD_ACME_AUTHZ_S_UNKNOWN]]

\* The authorizations md_acme_authz_update is called on: as
\* md_acme_authz_retrieve makes them, and as an earlier update left them.
StaleDomain == "other.example.org"
UpdatedAuthzs ==
    {[url |-> AuthzUrl, domain |-> d, state |-> st, dir |-> NULL, resource |-> EmptyJson] :
        d \in {NULL, StaleDomain},
        st \in {MD_ACME_AUTHZ_S_UNKNOWN, MD_ACME_AUTHZ_S_PENDING,
                 MD_ACME_AUTHZ_S_VALID, MD_ACME_AUTHZ_S_INVALID}}

\* The followed call after md_acme_authz_update did u on authz, the GET
\* answered with res.
UpdateDone(authz, res, u) ==
    [kind |-> "md_acme_authz_update", in |-> [authz |-> authz, body |-> res.json],
     returned |-> disp'.rv # SIGSEGV, rv |-> u.rv, out |-> [authz |-> u.authz]]

\* A caller runs md_acme_authz_update on the idle session.
Update ==
    /\ pc = "idle"
    /\ responds < MaxResponds
    /\ \E authz \in UpdatedAuthzs :
       \E res \in Responses(authz.url) :
         /\ Answered("GET", NoNonce, on_got_json, res, NULL,
                     req_send_GET(on_got_json, APR_SUCCESS, res, acme.nonce))
         /\ op' = UpdateDone(authz, res,
                             authz_updated(authz,
                                           md_acme_get_json(authz.url, res, acme.nonce)))
    /\ responds' = responds + 1
    /\ lastSetup' = NoSetup
    /\ call' = NoCall
    /\ UNCHANGED <<req, usedNonces, store>>

(***************************************************************************)
(* md_acme_authz_register: one md_acme_POST to acme->api.v1.new_authz.      *)
(***************************************************************************)
\* The domains an authorization is asked for.
RegisteredDomains == {Domain, StaleDomain}

\* A caller runs md_acme_authz_register(&authz, acme, domain, p) on the idle
\* session; *pauthz is NULL as long as the POST has not given an authz.  On a
\* session without new_authz the url is NULL: "assert(url)" of md_acme_POST
\* ends the process, or, compiled out, lets the request go on.
Register ==
    /\ pc = "idle"
    /\ responds < MaxResponds
    /\ \E domain \in RegisteredDomains :
         op' = [kind |-> "md_acme_authz_register", in |-> [domain |-> domain],
                returned |-> FALSE, rv |-> APR_SUCCESS,
                out |-> pauthz(APR_EINVAL, [set |-> FALSE, authz |-> md_acme_authz_create])]
    /\ \/ /\ pc' = "setup"
          /\ req' = [NoReq EXCEPT !.method = "POST", !.url = acme.new_authz,
                                  !.nonce0 = acme.nonce, !.consumer = "authz_created"]
       \/ /\ acme.new_authz = NULL
          /\ pc' = "crashed"
          /\ req' = NoReq
    /\ responds' = responds + 1
    /\ lastX' = NoX
    /\ lastSetup' = NoSetup
    /\ returned' = <<>>
    /\ disp' = NoDisp
    /\ call' = NoCall
    /\ UNCHANGED <<acme, usedNonces, issued, replayed, store>>

(***************************************************************************)
(* Functions without effect on the session: the call starts with its       *)
(* argument in place and one step applies the function.                    *)
(***************************************************************************)
apr_tolower(c) ==
    IF \E i \in 1..Len(UpperCase) : UpperCase[i] = c
    THEN LowerCase[CHOOSE i \in 1..Len(UpperCase) : UpperCase[i] = c]
    ELSE c

\* A type name as servers may spell it: as listed, in upper or in lower case.
Spellings(s) ==
    {s, [i \in 1..Len(s) |-> apr_toupper(s[i])], [i \in 1..Len(s) |-> apr_tolower(s[i])]}

\* Types that are not listed: an unknown error, a listed one with a blank
\* inside, one with the prefix twice or in upper case, about:blank, and the
\* empty string.
UnlistedTypes ==
    {UnknownType,
     UrnIetfParams \o AcmeError \o <<" ","m","a","l","f","o","r","m","e","d">>,
     AcmeError \o <<"u","n","a","u","t","h","o","r","i","z","e","d"," ">>,
     Urn \o Urn \o AcmeError \o <<"m","a","l","f","o","r","m","e","d">>,
     <<"U","R","N",":">> \o AcmeError \o <<"m","a","l","f","o","r","m","e","d">>,
     <<"a","b","o","u","t",":","b","l","a","n","k">>,
     <<>>}

\* The arguments problem_status_get is applied to.
ClassifiedTypes ==
    {prefix \o s : prefix \in {<<>>, Urn, UrnIetfParams},
                   s \in UNION {Spellings(Problems[i].type) : i \in 1..Len(Problems)}}
    \cup UnlistedTypes

\* The call of kind with the argument in, not yet made.
Apply(kind, in) ==
    [kind |-> kind, in |-> in, returned |-> FALSE, rv |-> APR_SUCCESS, out |-> <<>>]

\* md_acme_authz_state_t as the integer md_json_setl stores, and back (the
\* cast of md_acme_authz_from_json; a value outside the enumeration has no
\* name).
StateCodes == <<MD_ACME_AUTHZ_S_UNKNOWN, MD_ACME_AUTHZ_S_PENDING,
                MD_ACME_AUTHZ_S_VALID, MD_ACME_AUTHZ_S_INVALID>>
state_code(state) == CHOOSE i \in 0..3 : StateCodes[i + 1] = state
state_of_code(l) == IF l \in 0..3 THEN StateCodes[l + 1] ELSE "(md_acme_authz_state_t)?"

\* md_json_sets(value, json, key, NULL) and md_json_setl: the keys a document
\* gets from the strings given for them; a NULL string sets nothing.
KeysSet(strings) == {k \in DOMAIN strings : strings[k] # NULL}

\* md_json_getl(json, key, NULL): 0 when the key is not there.
md_json_getl(json, key) == IF key \in DOMAIN json THEN json[key] ELSE 0

\* A md_acme_authz_to_json that stores the url under "url".
md_acme_authz_to_json_url(a) ==
    [k \in KeysSet([domain |-> a.domain, url |-> a.url, dir |-> a.dir]) \cup {"state"} |->
        IF k = "state" THEN state_code(a.state) ELSE a[k]]

\* md_acme_authz_to_json(a, p): MD_KEY_DOMAIN, MD_KEY_LOCATION, MD_KEY_DIR and
\* MD_KEY_STATE.
md_acme_authz_to_json(a) ==
    [k \in KeysSet([domain |-> a.domain, location |-> a.url, dir |-> a.dir])
            \cup {"state"} |->
        CASE k = "state"    -> state_code(a.state)
          [] k = "location" -> a.url
          [] OTHER          -> a[k]]

\* md_acme_authz_from_json(json, p)
md_acme_authz_from_json(json) ==
    [md_acme_authz_create EXCEPT
       !.domain = md_json_dups(json, "domain"),
       !.url = md_json_dups(json, "location"),
       !.dir = md_json_dups(json, "dir"),
       !.state = state_of_code(md_json_getl(json, "state"))]

\* The authorizations that are saved: in every state, each of domain, url and
\* dir there or not, with or without a resource.
SavedAuthzs ==
    {[url |-> u, domain |-> d, state |-> StateCodes[i], dir |-> dir, resource |-> r] :
        u \in {NULL, AuthzUrl}, d \in {NULL, Domain}, i \in 1..4,
        dir \in {NULL, Domain, StaleDir},
        r \in {EmptyJson, [status |-> "pending"]}}

Applications ==
    {Apply("problem_status_get", type) : type \in ClassifiedTypes}
    \cup {Apply("md_acme_authz_to_json", a) : a \in SavedAuthzs}

InitPure ==
    /\ op \in Applications
    /\ acme = FreshAcme
    /\ store = EmptyStore
    /\ call = NoCall
    /\ responds = 0
    /\ disp = NoDisp
    /\ pc = "idle"
    /\ req = NoReq
    /\ lastX = NoX
    /\ lastSetup = NoSetup
    /\ returned = <<>>
    /\ usedNonces = {}
    /\ issued = 0
    /\ replayed = FALSE

\* problem_status_get(type)
Classify ==
    /\ op.kind = "problem_status_get"
    /\ ~op.returned
    /\ op' = [op EXCEPT !.returned = TRUE, !.rv = problem_status_get(op.in)]
    /\ UNCHANGED <<acme, pc, req, lastX, lastSetup, returned, usedNonces, issued,
                   replayed, store, call, responds, disp>>

\* md_acme_authz_to_json(op.in, p): the document is in out.
ToJson ==
    /\ op.kind = "md_acme_authz_to_json"
    /\ ~op.returned
    /\ op' = [op EXCEPT !.returned = TRUE, !.out = md_acme_authz_to_json(op.in)]
    /\ UNCHANGED <<acme, pc, req, lastX, lastSetup, returned, usedNonces, issued,
                   replayed, store, call, responds, disp>>

\* md_acme_authz_from_json(json, p) on the document a md_acme_authz_to_json
\* gave: the followed call keeps the authz that was saved, the document and
\* the authz read from it.
FromJson ==
    /\ op.kind = "md_acme_authz_to_json"
    /\ op.returned
    /\ op' = [kind |-> "md_acme_authz_from_json", in |-> [a |-> op.in, json |-> op.out],
              returned |-> TRUE, rv |-> APR_SUCCESS,
              out |-> md_acme_authz_from_json(op.out)]
    /\ UNCHANGED <<acme, pc, req, lastX, lastSetup, returned, usedNonces, issued,
                   replayed, store, call, responds, disp>>

Next ==
    \/ Setup
    \/ GETInitFails
    \/ GET
    \/ GETUnconsumed
    \/ POST
    \/ POSTUnconsumed
    \/ PostSetup
    \/ PostNonce
    \/ PostInit
    \/ PostDispatch

Spec == Init /\ [][Next]_vars

NextAuthz ==
    \/ Respond
    \/ PostSetup
    \/ PostNonce
    \/ PostInit
    \/ PostDispatch

SpecAuthz == InitAuthz /\ [][NextAuthz]_vars

NextCalls ==
    \/ RespondHandler
    \/ Update
    \/ Register
    \/ PostSetup
    \/ PostNonce
    \/ PostInit
    \/ PostDispatch

\* A session, fresh or resolved, with a store that may hold earlier files,
\* those of an earlier challenge for the same domain among them.
InitCalls ==
    \E a \in {FreshAcme, ResolvedAcme}, s \in InitialStores \cup {EarlierStore} :
        InitWith(a, s)

SpecCalls == InitCalls /\ [][NextCalls]_vars

NextPure ==
    \/ Classify
    \/ ToJson
    \/ FromJson

SpecPure == InitPure /\ [][NextPure]_vars


(***************************************************************************)
(* Properties of the request engine.                                       *)
(***************************************************************************)

\* C1 (nonce refresh): right after a response to a GET, HEAD or POST has been
\* processed (the transfer succeeded, so that the response has a status, of
\* any value) that carried Replay-Nonce X, the session's nonce is X.
C1_NonceRefresh ==
    (lastX.method \in {"GET", "HEAD", "POST"} /\ lastX.ok /\ lastX.rnonce # NoNonce)
        => acme.nonce = lastX.rnonce

\* A POST was answered outside [200,300) with a Replay-Nonce, which the
\* session now holds in place of the one the POST consumed.
C1_Witness ==
    /\ lastX.method = "POST"
    /\ lastX.ok
    /\ ~lastX.is2xx
    /\ lastX.rnonce # NoNonce
    /\ lastX.rnonce # lastX.pnonce
    /\ acme.nonce = lastX.rnonce

\* C2 as stated (nonce consumption): right after a POST has been sent,
\* whatever its outcome, the session's nonce is empty or differs from the
\* nonce in that request's protected headers.
C2_Original ==
    lastX.method = "POST"
        => (acme.nonce = NoNonce \/ acme.nonce # lastX.pnonce)

\* C2 as amended: the same, for every POST whose response does not itself
\* carry, as its Replay-Nonce, the nonce the request used.
C2_NonceConsumed ==
    (lastX.method = "POST" /\ ~(lastX.ok /\ lastX.rnonce = lastX.pnonce))
        => (acme.nonce = NoNonce \/ acme.nonce # lastX.pnonce)

\* A POST that carried a nonce failed in transport: the session is left
\* without a nonce.
C2_Witness ==
    /\ lastX.method = "POST"
    /\ lastX.pnonce # NoNonce
    /\ ~lastX.ok
    /\ acme.nonce = NoNonce

\* C3: every POST that has been signed (on_init) and is about to be
\* dispatched carries a non-empty nonce in its protected headers.
C3_SignedWithNonce ==
    pc = "dispatch" => (req.has_nonce /\ req.nonce # NoNonce)

\* C4 (nonces are not reused): as long as the server has not handed out the
\* same Replay-Nonce twice, the nonce of a POST about to be dispatched is not
\* the nonce of any POST dispatched before.
C4_NoNonceReuse ==
    (pc = "dispatch" /\ ~replayed) => req.nonce \notin usedNonces

\* A second POST is about to go out with a nonce of its own.
C4_Witness ==
    /\ pc = "dispatch"
    /\ ~replayed
    /\ usedNonces # {}
    /\ req.nonce # NoNonce
    /\ req.nonce \notin usedNonces

\* C5 as stated (nonce bootstrap): a POST issued on a session that holds no
\* nonce is dispatched only after a HEAD to new_reg, and carries the
\* Replay-Nonce of that HEAD.
C5_Original ==
    (pc = "dispatch" /\ req.nonce0 = NoNonce)
        => /\ req.head_sent
           /\ req.head_url = acme.new_reg
           /\ req.nonce = req.head_nonce

\* C5 as amended: a POST that finds the session without a nonce once the
\* directory is resolved (the directory GET of md_acme_setup, when it ran,
\* brought none) is dispatched only after a HEAD to new_reg, and carries what
\* that HEAD returned as Replay-Nonce.
C5_NonceBootstrap ==
    (pc = "dispatch" /\ req.nonce1 = NoNonce)
        => /\ req.head_sent
           /\ req.head_url = acme.new_reg
           /\ req.head_url # NULL
           /\ req.nonce = req.head_nonce

\* A POST on a session without a nonce is about to go out with the
\* Replay-Nonce of the HEAD that preceded it.
C5_Witness ==
    /\ pc = "dispatch"
    /\ req.nonce0 = NoNonce
    /\ req.nonce1 = NoNonce
    /\ req.head_sent
    /\ req.head_nonce # NoNonce
    /\ req.nonce = req.head_nonce

\* C6 (directory completeness): when the directory GET succeeds,
\* md_acme_setup returns success if and only if the document holds all four
\* endpoints, and APR_EINVAL otherwise.
C6_DirectoryCompleteness ==
    (lastSetup.ran /\ lastSetup.get_rv = APR_SUCCESS)
        => /\ lastSetup.rv = APR_SUCCESS <=> DirKeys \subseteq lastSetup.keys
           /\ ~(DirKeys \subseteq lastSetup.keys) => lastSetup.rv = APR_EINVAL

\* A directory without revoke-cert was fetched and refused.
C6_Witness ==
    /\ lastSetup.ran
    /\ lastSetup.get_rv = APR_SUCCESS
    /\ lastSetup.keys = DirKeys \ {"revoke-cert"}
    /\ lastSetup.rv = APR_EINVAL

\* C7: in every state of the session the four endpoints are all set or all
\* unset.
C7_DirectoryAllOrNothing ==
    \/ /\ acme.new_authz = NULL
       /\ acme.new_cert = NULL
       /\ acme.new_reg = NULL
       /\ acme.revoke_cert = NULL
    \/ /\ acme.new_authz # NULL
       /\ acme.new_cert # NULL
       /\ acme.new_reg # NULL
       /\ acme.revoke_cert # NULL

\* C8: every md_acme_GET / md_acme_POST call that returns has released its
\* request exactly once.
C8_ReleasedOnce ==
    \A i \in DOMAIN returned : returned[i].done = 1

(***************************************************************************)
(* Properties of the challenge dispatcher.                                 *)
(***************************************************************************)

\* C9 (challenge selection order): when some configured type equals, case
\* ignored, the type of an offered challenge, md_acme_authz_respond accepts a
\* challenge whose type equals, case ignored, the first such configured type;
\* which one that is depends on the set of offered types only, not on the
\* order of the challenges in the resource.
C9_SelectionOrder ==
    call.called =>
        LET EqualIgnoringCase(a, b) ==
                /\ Len(a) = Len(b)
                /\ \A i \in 1..Len(a) : apr_toupper(a[i]) = apr_toupper(b[i])
            offered == call.authz.resource.challenges
            typed == {i \in 1..Len(offered) : "type" \in DOMAIN offered[i]}
            matching == {p \in 1..Len(call.challenges) :
                            \E i \in typed :
                                EqualIgnoringCase(call.challenges[p], offered[i].type)}
        IN  matching # {} =>
                /\ call.accepted \in typed
                /\ \E p \in matching :
                     /\ \A q \in matching : p <= q
                     /\ EqualIgnoringCase(offered[call.accepted].type, call.challenges[p])

\* C10: when no configured type equals, case ignored, the type of any offered
\* challenge, md_acme_authz_respond returns APR_EINVAL and does nothing else:
\* it starts no handler, loads and saves nothing in the store, sends no
\* request, and leaves the authz and the session nonce as they were.
C10_NoMatchNoEffect ==
    call.called =>
        LET EqualIgnoringCase(a, b) ==
                /\ Len(a) = Len(b)
                /\ \A i \in 1..Len(a) : apr_toupper(a[i]) = apr_toupper(b[i])
            offered == call.authz.resource.challenges
            typed == {i \in 1..Len(offered) : "type" \in DOMAIN offered[i]}
            matching == {p \in 1..Len(call.challenges) :
                            \E i \in typed :
                                EqualIgnoringCase(call.challenges[p], offered[i].type)}
        IN  matching = {} =>
                /\ call.rv = APR_EINVAL
                /\ ~call.post
                /\ call.start = "none"
                /\ call.loaded = {}
                /\ call.saved = {}
                /\ store = call.store
                /\ call.authz_after = call.authz
                /\ acme.nonce = call.nonce
                /\ pc = "idle"
                /\ lastX = NoX


(***************************************************************************)
(* Properties of the challenge handlers and of the authorization calls.    *)
(***************************************************************************)

\* C11 (key authorization identity): once setup_key_authz has succeeded in a
\* handler (its one collaborator, md_jws_pkey_thumb, did not fail), the
\* challenge's key_authz is token "." thumbprint of the account key, whatever
\* key_authz the challenge came with: none, that value, or another one, which
\* is replaced.
C11_KeyAuthzIdentity ==
    (op.kind = "md_acme_authz_respond" /\ op.out.start # "none"
        /\ op.in.fault # "thumb")
        => op.out.cha.key_authz = op.out.cha.token \o "." \o Thumb64

\* A handler was given a challenge with the key authorization of another
\* account key and got past setup_key_authz.
C11_Witness ==
    /\ op.kind = "md_acme_authz_respond"
    /\ op.out.start = "cha_tls_alpn_01_setup"
    /\ op.in.fault # "thumb"
    /\ md_json_dups(op.in.authz.resource.challenges[1], "keyAuthorization")
           = StaleKeyAuthz
    /\ op.out.cha.key_authz = FreshKeyAuthz

\* C12 (http-01 artifact): when md_acme_authz_respond has returned APR_SUCCESS
\* through cha_http_01_setup, the store holds, in the challenge group under
\* authz->domain, the file MD_FN_HTTP01 with exactly the challenge's
\* key_authz, whether the file was not there before, held another value, or
\* held that value already.
C12_Http01Artifact ==
    (op.kind = "md_acme_authz_respond" /\ op.out.start = "cha_http_01_setup"
        /\ op.returned /\ op.rv = APR_SUCCESS)
        => /\ StoreKey(op.in.authz.domain, MD_FN_HTTP01) \in DOMAIN store
           /\ store[StoreKey(op.in.authz.domain, MD_FN_HTTP01)] = op.out.cha.key_authz

\* The handler found the file with another key authorization, wrote it anew
\* and its POST to the challenge url succeeded.
C12_Witness ==
    /\ op.kind = "md_acme_authz_respond"
    /\ op.out.start = "cha_http_01_setup"
    /\ op.returned
    /\ op.rv = APR_SUCCESS
    /\ op.in.store = StaleStore
    /\ lastX.method = "POST"
    /\ store[StoreKey(Domain, MD_FN_HTTP01)] = FreshKeyAuthz

\* C13 (http-01 directory): when md_acme_authz_respond has returned
\* APR_SUCCESS through cha_http_01_setup, authz->dir is authz->domain,
\* whatever the store held before (the file MD_FN_HTTP01 with the key
\* authorization included) and whatever authz->dir was before.
C13_Http01Dir ==
    (op.kind = "md_acme_authz_respond" /\ op.out.start = "cha_http_01_setup"
        /\ op.returned /\ op.rv = APR_SUCCESS)
        => op.out.authz.dir = op.in.authz.domain



\* C27 (no handler): when the first configured type that equals, case ignored,
\* the type of an offered challenge has no handler (no name in CHA_TYPES
\* equals it, case ignored), md_acme_authz_respond returns APR_ENOTIMPL,
\* starts no handler, loads and saves nothing in the store and sends
\* nothing, even when a later configured type is offered and has a handler.
C27_NoHandler ==
    call.called =>
        LET EqualIgnoringCase(a, b) ==
                /\ Len(a) = Len(b)
                /\ \A i \in 1..Len(a) : apr_toupper(a[i]) = apr_toupper(b[i])
            offered == call.authz.resource.challenges
            typed == {i \in 1..Len(offered) : "type" \in DOMAIN offered[i]}
            matching == {p \in 1..Len(call.challenges) :
                            \E i \in typed :
                                EqualIgnoringCase(call.challenges[p], offered[i].type)}
            handled(p) == \E i \in 1..Len(CHA_TYPES) :
                              EqualIgnoringCase(CHA_TYPES[i].name, call.challenges[p])
        IN  (\E p \in matching : (\A q \in matching : p <= q) /\ ~handled(p)) =>
                /\ call.rv = APR_ENOTIMPL
                /\ ~call.post
                /\ call.start = "none"
                /\ call.loaded = {}
                /\ call.saved = {}
                /\ store = call.store
                /\ call.authz_after = call.authz
                /\ acme.nonce = call.nonce
                /\ pc = "idle"
                /\ lastX = NoX

C22_PostOnChange ==
    (op.kind = "md_acme_authz_respond" /\ op.out.start # "none") =>
        LET start == op.out.start
            given == IF "keyAuthorization" \in DOMAIN op.in.authz.resource.challenges[1]
                     THEN op.in.authz.resource.challenges[1].keyAuthorization
                     ELSE NULL
            expected == Token \o "." \o Thumb64
            installed == given # op.out.cha.key_authz
            written == store # op.in.store
            name == IF start = "cha_tls_sni_01_setup"
                    THEN "sha256:" \o expected \o ".acme.invalid"
                    ELSE op.in.authz.domain
            file == CASE start = "cha_http_01_setup" -> "acme-http-01.txt"
                      [] start = "cha_tls_alpn_01_setup" -> "acme-tls-alpn-01.pem"
                      [] start = "cha_tls_sni_01_setup" -> "acme-tls-sni-01.cert.pem"
            key == name \o "/" \o file
            UpToDate(st) ==
                /\ key \in DOMAIN st
                /\ CASE start = "cha_http_01_setup" -> st[key] = expected
                     [] start = "cha_tls_alpn_01_setup" ->
                          /\ name \in st[key].alt_names
                          /\ st[key].acme_id = "critical,DER:04:20:sha256:" \o expected
                     [] start = "cha_tls_sni_01_setup" -> name \in st[key].alt_names
        IN  /\ op.out.post => (installed \/ written)
            /\ (~op.out.post /\ op.rv = APR_SUCCESS) => (~installed /\ ~written)
            /\ (given = expected /\ UpToDate(op.in.store)) =>
                /\ store = op.in.store
                /\ ~op.out.post
                /\ op.returned
                /\ pc = "idle"
                /\ lastX = NoX
                /\ ~lastSetup.ran

\* A tls-alpn-01 challenge with the key authorization of the account key met
\* its certificate in the store: the call succeeded without a POST.
C22_Witness ==
    /\ op.kind = "md_acme_authz_respond"
    /\ op.out.start = "cha_tls_alpn_01_setup"
    /\ op.in.store = FreshStore
    /\ op.in.fault = "none"
    /\ md_json_dups(op.in.authz.resource.challenges[1], "keyAuthorization")
           = FreshKeyAuthz
    /\ op.returned
    /\ op.rv = APR_SUCCESS
    /\ ~op.out.post
    /\ store = FreshStore
    /\ lastX = NoX


\* C23 (tls-alpn-01 certificate): when md_acme_authz_respond has returned
\* APR_SUCCESS through cha_tls_alpn_01_setup, the store holds, under
\* authz->domain, the file MD_FN_TLSALPN01_CERT with a certificate for the
\* domain whose acme-identifier is "critical,DER:04:20:" and the sha256 of the
\* key authorization the challenge has now, and the file MD_FN_TLSALPN01_PKEY
\* with it; whatever the store held before, the certificate of an earlier
\* challenge for the same domain included.
C23_TlsAlpn01Certificate ==
    (op.kind = "md_acme_authz_respond" /\ op.out.start = "cha_tls_alpn_01_setup"
        /\ op.returned /\ op.rv = APR_SUCCESS) =>
        /\ StoreKey(op.in.authz.domain, MD_FN_TLSALPN01_CERT) \in DOMAIN store
        /\ op.in.authz.domain
             \in store[StoreKey(op.in.authz.domain, MD_FN_TLSALPN01_CERT)].alt_names
        /\ store[StoreKey(op.in.authz.domain, MD_FN_TLSALPN01_CERT)].acme_id
             = "critical,DER:04:20:sha256:" \o op.out.cha.key_authz
        /\ StoreKey(op.in.authz.domain, MD_FN_TLSALPN01_PKEY) \in DOMAIN store


\* C24 (register resolves the directory first): a md_acme_authz_register
\* call, on a session whose directory is not resolved included, goes through
\* md_acme_req_send (the call is not ended before it), and from the directory
\* step on the url of its POST is the new_authz of the session, never NULL.
C24_RegisterResolved ==
    op.kind = "md_acme_authz_register" =>
        /\ pc = "crashed" => disp.ran
        /\ pc \in {"nonce", "install", "dispatch"} =>
              /\ req.url # NULL
              /\ req.url = acme.new_authz


\* C26 (terminal states): an authz whose state is VALID or INVALID when
\* md_acme_authz_update or md_acme_authz_respond is called on it has the same
\* state when the call has returned, whatever the server answered.
C26_TerminalStates ==
    (op.kind \in {"md_acme_authz_update", "md_acme_authz_respond"} /\ op.returned
        /\ op.in.authz.state \in {MD_ACME_AUTHZ_S_VALID, MD_ACME_AUTHZ_S_INVALID})
        => op.out.authz.state = op.in.authz.state


(***************************************************************************)
(* Properties of the problem classifier and of on_response.                *)
(***************************************************************************)

\* C14 (problem classification): problem_status_get strips a leading
\* "urn:ietf:params:" or else a leading "urn:" from the type; when what is
\* left equals, case ignored, a listed type it returns the kind listed for it
\* (badCSR, badSignatureAlgorithm, malformed, badRevocationReason:
\* APR_EINVAL; invalidContact, rateLimited, rejectedIdentifier,
\* unsupportedIdentifier: APR_BADARG; unauthorized: APR_EACCES;
\* userActionRequired: APR_EAGAIN; the other listed types: APR_EGENERAL), and
\* APR_EGENERAL for every type that is not listed.
C14_ProblemClassification ==
    (op.kind = "problem_status_get" /\ op.returned) =>
        LET EqualIgnoringCase(a, b) ==
                /\ Len(a) = Len(b)
                /\ \A i \in 1..Len(a) : apr_toupper(a[i]) = apr_toupper(b[i])
            Name(n) == <<"a","c","m","e",":","e","r","r","o","r",":">> \o n
            stripped ==
                IF StartsWith(op.in, <<"u","r","n",":","i","e","t","f",":","p","a","r","a","m","s",":">>)
                THEN Skip(op.in, 16)
                ELSE IF StartsWith(op.in, <<"u","r","n",":">>) THEN Skip(op.in, 4)
                ELSE op.in
            Is(names) == \E n \in names : EqualIgnoringCase(stripped, Name(n))
        IN  op.rv =
              IF Is({<<"b","a","d","C","S","R">>,
                     <<"b","a","d","S","i","g","n","a","t","u","r","e","A","l","g","o","r","i","t","h","m">>,
                     <<"m","a","l","f","o","r","m","e","d">>,
                     <<"b","a","d","R","e","v","o","c","a","t","i","o","n","R","e","a","s","o","n">>})
              THEN APR_EINVAL
              ELSE IF Is({<<"i","n","v","a","l","i","d","C","o","n","t","a","c","t">>,
                          <<"r","a","t","e","L","i","m","i","t","e","d">>,
                          <<"r","e","j","e","c","t","e","d","I","d","e","n","t","i","f","i","e","r">>,
                          <<"u","n","s","u","p","p","o","r","t","e","d","I","d","e","n","t","i","f","i","e","r">>})
              THEN APR_BADARG
              ELSE IF Is({<<"u","n","a","u","t","h","o","r","i","z","e","d">>})
              THEN APR_EACCES
              ELSE IF Is({<<"u","s","e","r","A","c","t","i","o","n","R","e","q","u","i","r","e","d">>})
              THEN APR_EAGAIN
              ELSE APR_EGENERAL

\* C15 (responses outside [200,300)): when the transfer succeeded and the
\* status is outside [200,300), the request ends with an error kind (the call
\* returns, and not APR_SUCCESS) and neither on_json nor on_res is invoked;
\* for a well-formed application/problem+json body the kind is the
\* classification of its type, otherwise it is APR_EINVAL for 400, APR_EACCES
\* for 403, APR_ENOENT for 404 and APR_EGENERAL for any other status.
C15_ProblemInspection ==
    (disp.ran /\ disp.ok /\ ~Is2xx(disp.status)) =>
        /\ pc # "crashed"
        /\ ~disp.on_json
        /\ ~disp.on_res
        /\ disp.rv \in {APR_EINVAL, APR_EGENERAL, APR_EACCES, APR_ENOENT, APR_EAGAIN,
                         APR_BADARG}
        /\ IF disp.ctype = "application/problem+json" /\ disp.parses
           THEN disp.typed => disp.rv = problem_status_get(disp.ptype)
           ELSE disp.rv = CASE disp.status = 400 -> APR_EINVAL
                            [] disp.status = 403 -> APR_EACCES
                            [] disp.status = 404 -> APR_ENOENT
                            [] OTHER -> APR_EGENERAL

\* C16 (responses in [200,300)): on_response invokes at most one of on_json
\* and on_res.  With an on_json and a body that parses as JSON, on_json alone
\* is invoked and its result is the result of the request; when the parse
\* fails with "not JSON content", on_res is invoked if there is one; any other
\* parse failure is the result and no callback is invoked; without on_json,
\* on_res is invoked; when no callback took the body the result is
\* APR_EINVAL.
C16_OneConsumer ==
    (disp.ran /\ disp.ok /\ Is2xx(disp.status)) =>
        LET notJson == disp.ctype \notin {"application/json", "application/problem+json"}
            parsed == ~notJson /\ disp.parses
        IN  /\ ~(disp.on_json /\ disp.on_res)
            /\ IF disp.reg_json /\ parsed
               THEN disp.on_json /\ ~disp.on_res /\ disp.rv = disp.cbrv
               ELSE IF disp.reg_json /\ ~notJson
               THEN ~disp.on_json /\ ~disp.on_res /\ disp.rv # APR_SUCCESS
               ELSE /\ ~disp.on_json
                    /\ disp.on_res = disp.reg_res
                    /\ disp.rv = IF disp.reg_res THEN disp.cbrv ELSE APR_EINVAL

\* A request with both callbacks got a 200 whose body is not JSON content:
\* on_res took it.
C16_Witness ==
    /\ disp.ran
    /\ disp.ok
    /\ Is2xx(disp.status)
    /\ disp.reg_json
    /\ disp.reg_res
    /\ disp.ctype = "text/plain"
    /\ disp.on_res
    /\ ~disp.on_json
    /\ disp.rv = disp.cbrv

\* C17 (update): when the GET of md_acme_authz_update is answered in
\* [200,300) with a JSON document, the call returns APR_SUCCESS with the state
\* PENDING, VALID or INVALID when "status" is exactly "pending", "valid" or
\* "invalid" (and then domain is the document's identifier.value and resource
\* is the document), and it returns APR_EINVAL when "status" is missing or has
\* any other value.
C17_Update ==
    (op.kind = "md_acme_authz_update" /\ op.returned /\ disp.ok
        /\ Is2xx(disp.status) /\ disp.ctype = "application/json" /\ disp.parses) =>
        LET body == op.in.body
            status == IF "status" \in DOMAIN body THEN body.status ELSE "(none)"
            Copied == /\ op.out.authz.resource = body
                      /\ op.out.authz.domain =
                           IF "identifier" \in DOMAIN body THEN body.identifier.value
                           ELSE NULL
        IN  CASE status = "pending" ->
                   /\ op.rv = APR_SUCCESS
                   /\ op.out.authz.state = MD_ACME_AUTHZ_S_PENDING
                   /\ Copied
              [] status = "valid" ->
                   /\ op.rv = APR_SUCCESS
                   /\ op.out.authz.state = MD_ACME_AUTHZ_S_VALID
                   /\ Copied
              [] status = "invalid" ->
                   /\ op.rv = APR_SUCCESS
                   /\ op.out.authz.state = MD_ACME_AUTHZ_S_INVALID
                   /\ Copied
              [] OTHER -> op.rv = APR_EINVAL

\* An authorization that was pending, for another domain, was updated from a
\* document with the status "valid".
C17_Witness ==
    /\ op.kind = "md_acme_authz_update"
    /\ op.returned
    /\ op.rv = APR_SUCCESS
    /\ op.in.authz.state = MD_ACME_AUTHZ_S_PENDING
    /\ op.in.authz.domain = StaleDomain
    /\ op.out.authz.state = MD_ACME_AUTHZ_S_VALID
    /\ op.out.authz.domain = "example.org"

\* C18 (register): a md_acme_authz_register call ends by returning; it gives
\* an authz exactly when its POST was answered in [200,300) with a JSON
\* document and a Location header, and exactly then it returns APR_SUCCESS;
\* the authz has url = Location, domain = the domain asked for, resource = the
\* document and the state UNKNOWN.  A 2xx JSON response without Location
\* gives APR_EINVAL, and every failure gives its error and no authz.
C18_Register ==
    (op.kind = "md_acme_authz_register" /\ pc \in {"idle", "crashed"}) =>
        /\ op.returned
        /\ op.out.set = (/\ disp.ran /\ disp.ok /\ Is2xx(disp.status)
                         /\ disp.ctype \in {"application/json", "application/problem+json"}
                         /\ disp.parses
                         /\ disp.location # NULL)
        /\ op.out.set = (op.rv = APR_SUCCESS)
        /\ op.out.set =>
              /\ op.out.authz.url = disp.location
              /\ op.out.authz.domain = op.in.domain
              /\ op.out.authz.resource = disp.body
              /\ op.out.authz.state = MD_ACME_AUTHZ_S_UNKNOWN
              /\ op.out.authz.dir = NULL
        /\ (/\ disp.ran /\ disp.ok /\ Is2xx(disp.status)
            /\ disp.ctype \in {"application/json", "application/problem+json"}
            /\ disp.parses /\ disp.location = NULL) => op.rv = APR_EINVAL

(***************************************************************************)
(* Properties of the authz conversion.                                     *)
(***************************************************************************)

\* C19 (authz JSON round trip): the authz that md_acme_authz_from_json reads
\* from the document md_acme_authz_to_json made of an authz a has the domain,
\* url, dir and state of a (each of the three strings absent when it is
\* absent in a); the document holds the url under "location" and the state
\* as its integer code, 0 for UNKNOWN to 3 for INVALID.
C19_AuthzRoundTrip ==
    op.kind = "md_acme_authz_from_json" =>
        /\ op.out.domain = op.in.a.domain
        /\ op.out.url = op.in.a.url
        /\ op.out.dir = op.in.a.dir
        /\ op.out.state = op.in.a.state
        /\ ("location" \in DOMAIN op.in.json) = (op.in.a.url # NULL)
        /\ op.in.a.url # NULL => op.in.json.location = op.in.a.url
        /\ "url" \notin DOMAIN op.in.json
        /\ op.in.json.state \in 0..3
        /\ op.in.json.state =
             (CASE op.in.a.state = MD_ACME_AUTHZ_S_UNKNOWN -> 0
                [] op.in.a.state = MD_ACME_AUTHZ_S_PENDING -> 1
                [] op.in.a.state = MD_ACME_AUTHZ_S_VALID   -> 2
                [] op.in.a.state = MD_ACME_AUTHZ_S_INVALID -> 3)

\* A valid authz with a url and a domain and no dir was saved and read back.
C19_Witness ==
    /\ op.kind = "md_acme_authz_from_json"
    /\ op.in.a.state = MD_ACME_AUTHZ_S_VALID
    /\ op.in.a.url = AuthzUrl
    /\ op.in.a.dir = NULL
    /\ op.in.json = [domain |-> "example.org", location |-> AuthzUrl, state |-> 2]
    /\ op.out.url = AuthzUrl
    /\ op.out.state = MD_ACME_AUTHZ_S_VALID

(***************************************************************************)
(* Properties of md_acme_GET and md_acme_POST.                             *)
(***************************************************************************)

\* C20 (no consumer): a md_acme_GET or md_acme_POST call that was given
\* neither on_json nor on_res ends by returning APR_EINVAL, no request having
\* been sent for it (no directory GET, no HEAD, no GET or POST), and the
\* session's nonce and directory being what they were at the call.
C20_NoConsumer ==
    (op.kind \in {"md_acme_GET", "md_acme_POST"} /\ ~op.in.on_json /\ ~op.in.on_res) =>
        /\ pc \in {"idle", "crashed"} => (op.returned /\ op.rv = APR_EINVAL)
        /\ lastX = NoX
        /\ ~lastSetup.ran
        /\ ~disp.ran
        /\ acme = op.in.acme


\* C28 (immutable directory): from a session whose four endpoints are set, no
\* step changes any of them, whatever call it belongs to and whatever the
\* server answers, and the step of md_acme_req_send that looks at the
\* directory does not run md_acme_setup.
C28_DirectoryImmutable ==
    [][directory_complete(acme) =>
          /\ acme'.new_authz = acme.new_authz
          /\ acme'.new_cert = acme.new_cert
          /\ acme'.new_reg = acme.new_reg
          /\ acme'.revoke_cert = acme.revoke_cert
          /\ pc = "setup" => ~lastSetup'.ran]_vars


\* C29 (update outcome): md_acme_authz_update gives APR_SUCCESS exactly when
\* it leaves the authz in one of the states PENDING, VALID, INVALID; when it
\* gives anything else the state is UNKNOWN, whatever it was before; and
\* authz->url is what it was before.
C29_UpdateOutcome ==
    op.kind = "md_acme_authz_update" =>
        /\ op.rv = APR_SUCCESS <=>
              op.out.authz.state \in {MD_ACME_AUTHZ_S_PENDING, MD_ACME_AUTHZ_S_VALID,
                                      MD_ACME_AUTHZ_S_INVALID}
        /\ op.rv # APR_SUCCESS => op.out.authz.state = MD_ACME_AUTHZ_S_UNKNOWN
        /\ op.out.authz.url = op.in.authz.url

\* An update of an authz that was VALID returned an error, the GET answered
\* 404, and left the state UNKNOWN.
C29_Witness ==
    /\ op.kind = "md_acme_authz_update"
    /\ op.returned
    /\ op.in.authz.state = MD_ACME_AUTHZ_S_VALID
    /\ disp.ok
    /\ disp.status = 404
    /\ op.rv = APR_ENOENT
    /\ op.out.authz.state = MD_ACME_AUTHZ_S_UNKNOWN
    /\ op.out.authz.url = AuthzUrl

\* C25 (no retry): every step of a md_acme_GET or md_acme_POST call moves the
\* call forward and none ends the process: a GET makes its one exchange and
\* returns; a POST passes the directory step (at most the one directory
\* GET), the nonce step (at most the one HEAD), the installation of the nonce
\* and the dispatch (the one POST) in this order, each once, and returns one
\* outcome when it leaves them, whatever the response, a badNonce problem
\* included.
C25_NoRetry ==
    [][/\ pc' # "crashed"
       /\ pc = "idle" =>
             /\ pc' \in {"idle", "setup"}
             /\ pc' = "idle" => Len(returned') = 1
             /\ pc' = "setup" => (lastX' = NoX /\ returned' = <<>>)
       /\ pc = "setup" =>
             /\ pc' \in {"nonce", "idle"}
             /\ lastX' # NoX => (lastX'.method = "GET" /\ lastSetup'.ran)
       /\ pc = "nonce" =>
             /\ pc' \in {"install", "idle"}
             /\ lastX' # NoX => lastX'.method = "HEAD"
       /\ pc = "install" =>
             /\ pc' \in {"dispatch", "idle"}
             /\ lastX' = NoX
       /\ pc = "dispatch" =>
             /\ pc' = "idle"
             /\ lastX'.method = "POST"
       /\ (pc # "idle" /\ pc' = "idle") =>
             Cardinality({i \in 1..Len(returned') : returned'[i].method = "POST"}) = 1]_vars

====
